---- MODULE Spec2Model ----
(***************************************************************************)
(* Verda Cloud MCP server: the availability monitor                       *)
(* (server.py monitor_spot_availability), the capacity prober             *)
(* (client.py check_spot_availability), instance creation                 *)
(* (client.py create_instance) and the ready-wait (client.py              *)
(* wait_for_ready), as one state machine per invocation.  Every provider  *)
(* call (is_available, ssh_keys.get, instances.create, get_by_id) answers *)
(* nondeterministically, a raised transport error included.               *)
(*                                                                         *)
(* Python's `x or d` takes d when x is None, "" or 0.  An omitted string  *)
(* argument is written "" and an omitted integer argument 0: both are     *)
(* falsy, so `or` treats them exactly like None.                          *)
(***************************************************************************)
EXTENDS Integers, Sequences, FiniteSets, TLC

\* ---------------------------------------------------------------- bounds
MaxChecks == 3
MaxInterval == 2
MaxTimeout == 6
MaxPoll == 3
MaxInvocations == 2
MaxCalls == 2
MaxRequests == 5
MaxConcurrentChecks == 2

\* ------------------------------------------------------- program constants
\* _executor = ThreadPoolExecutor(max_workers=4)
max_workers == 4

LOCATION_CODES == <<"FIN-01", "FIN-02", "FIN-03">>

mapping ==
    ( "B300"  :> (1 :> "1B300.30V" @@ 2 :> "2B300.60V" @@ 4 :> "4B300.120V" @@ 8 :> "8B300.240V")
   @@ "B200"  :> (1 :> "1B200.30V" @@ 2 :> "2B200.60V" @@ 4 :> "4B200.120V" @@ 8 :> "8B200.240V")
   @@ "GB300" :> (1 :> "1GB300.36V" @@ 2 :> "2GB300.72V" @@ 4 :> "4GB300.144V")
   @@ "H200"  :> (1 :> "1H200.141S.44V") )

\* str.upper() on the strings the model feeds it
Upper(s) ==
    CASE s = "b300"  -> "B300"
      [] s = "b200"  -> "B200"
      [] s = "gb300" -> "GB300"
      [] s = "h200"  -> "H200"
      [] s = "a100"  -> "A100"
      [] OTHER       -> s

\* dict.get(key, default)
DictGet(d, k, default) == IF k \in DOMAIN d THEN d[k] ELSE default

\* mutant: an unsupported count of a known kind falls back to the kind's
\* single-GPU type
get_instance_type_from_gpu_type_and_count_fallback(gt, gc) ==
    DictGet(DictGet(mapping, Upper(gt), <<>>), gc,
            DictGet(DictGet(mapping, Upper(gt), <<>>), 1, ""))

\* client.py 28-63
get_instance_type_from_gpu_type_and_count(gt, gc) ==
    DictGet(DictGet(mapping, Upper(gt), <<>>), gc, "")

\* mutant: the resolver's miss is not tested
Unresolved_never(it) == FALSE

\* `if not instance_type` (client.py 252 and 359)
Unresolved(it) == it = ""

\* `a or b` on strings and on integers
OrStr(a, b) == IF a = "" THEN b ELSE a
OrInt(a, b) == IF a = 0 THEN b ELSE a

\* ------------------------------------------------------------ input domains
Ops == {"monitor", "check", "wait", "deploy", "create", "delete", "shutdown", "start"}
GpuTypeArgs == {"", "B300", "h200", "A100"}
GpuCountArgs == {0, 1, 2}
LocationArgs == {"", "FIN-02", "X-01"}
InstanceIds == {"i-1", "i-2"}
HostnameArgs == {"", "my-host"}

\* ------------------------------------------------------------ config.yaml
\* parsed YAML: a mapping from keys to values, a value being a scalar or
\* another mapping
Dict(f) == [t |-> "dict", v |-> f]
Scalar(x) == [t |-> "scalar", v |-> x]
IsDict(x) == x.t = "dict"

\* yaml.dump: the file holds one line per scalar and per empty mapping, each
\* under the keys that lead to it
RECURSIVE dump(_, _)
dump(data, path) ==
    UNION { IF IsDict(data[k]) /\ DOMAIN data[k].v # {}
            THEN dump(data[k].v, Append(path, k))
            ELSE { <<Append(path, k), data[k]>> } : k \in DOMAIN data }

\* yaml.safe_load: the mapping the lines of the file spell out
RECURSIVE safe_load(_)
safe_load(file) ==
    [ k \in { e[1][1] : e \in file } |->
        IF \E e \in file : Len(e[1]) = 1 /\ e[1][1] = k
        THEN (CHOOSE e \in file : Len(e[1]) = 1 /\ e[1][1] = k)[2]
        ELSE Dict(safe_load({ <<Tail(e[1]), e[2]>> :
                                e \in { x \in file : x[1][1] = k } })) ]

\* dict.get(key, default)
Get(d, k, default) == IF k \in DOMAIN d THEN d[k].v ELSE default

\* Config.load raises: a credential is missing or a placeholder, or a section
\* is not a mapping
LoadRaises(data) ==
    \/ Get(data, "client_id", "") \in {"", "your-client-id-here"}
    \/ Get(data, "client_secret", "") \in {"", "your-client-secret-here"}
    \/ \E k \in {"defaults", "deployment"} : k \in DOMAIN data /\ ~IsDict(data[k])

\* Config.load, from the parsed file
Load(data) ==
    LET defaults_data == Get(data, "defaults", <<>>)
        deployment_data == Get(data, "deployment", <<>>)
    IN  [ client_id     |-> Get(data, "client_id", ""),
          client_secret |-> Get(data, "client_secret", ""),
          defaults |->
            [ project         |-> Get(defaults_data, "project", ""),
              gpu_type        |-> Get(defaults_data, "gpu_type", "B300"),
              gpu_count       |-> Get(defaults_data, "gpu_count", 1),
              location        |-> Get(defaults_data, "location", "FIN-03"),
              volume_id       |-> Get(defaults_data, "volume_id", ""),
              volume_size     |-> Get(defaults_data, "volume_size", 150),
              script_id       |-> Get(defaults_data, "script_id", ""),
              image           |-> Get(defaults_data, "image",
                                      "ubuntu-24.04-cuda-12.8-open-docker"),
              hostname_prefix |-> Get(defaults_data, "hostname_prefix", "spot-gpu") ],
          deployment |->
            [ ready_timeout |-> Get(deployment_data, "ready_timeout", 600),
              poll_interval |-> Get(deployment_data, "poll_interval", 10),
              use_spot      |-> Get(deployment_data, "use_spot", TRUE) ] ]

\* mutant: the merge replaces the top-level sections the updates name
deep_merge_shallow(base, updates) ==
    [ k \in DOMAIN base \cup DOMAIN updates |->
        IF k \in DOMAIN updates THEN updates[k] ELSE base[k] ]

\* update_config_file's deep_merge
RECURSIVE deep_merge(_, _)
deep_merge(base, updates) ==
    [ k \in DOMAIN base \cup DOMAIN updates |->
        IF k \notin DOMAIN updates THEN base[k]
        ELSE IF IsDict(updates[k]) /\ k \in DOMAIN base /\ IsDict(base[k])
             THEN Dict(deep_merge(base[k].v, updates[k].v))
             ELSE updates[k] ]

\* a config.yaml with the credentials filled in, that sets the deployment
\* timings (scaled down to small numbers) and leaves the defaults to the
\* dataclass
ConfigData(rt) ==
    [ client_id     |-> Scalar("id-1"),
      client_secret |-> Scalar("secret-1"),
      deployment    |-> Dict([ready_timeout |-> Scalar(rt),
                              poll_interval |-> Scalar(2)]) ]

ConfigFiles == { dump(ConfigData(rt), <<>>) : rt \in {3, 4} }

\* the configurations they load to
Configs == { Load(safe_load(f)) : f \in ConfigFiles }

\* what the provider may answer
ProbeAnswers == {"available", "unavailable", "error"}
KeyAnswers == {"some", "none", "error"}
CreateAnswers == {"ok", "error"}
Statuses == {"running", "error", "failed", "terminated", "pending", "unknown",
             "provisioning", "Running"}
\* an SDK instance object: its status attribute may be missing
SdkInstances ==
    { [id |-> i, status |-> s] : i \in InstanceIds, s \in Statuses }
    \cup { [id |-> i] : i \in InstanceIds }

\* mutant: the Instance built from an SDK object gets another id
from_sdk_otherId(inst) ==
    [ id     |-> CHOOSE i \in InstanceIds : i # inst.id,
      status |-> IF "status" \in DOMAIN inst THEN inst.status ELSE "unknown" ]

\* Instance.from_sdk
from_sdk(inst) ==
    [ id     |-> inst.id,
      status |-> IF "status" \in DOMAIN inst THEN inst.status ELSE "unknown" ]

AvailabilityResult(av, loc, it, gt, gc) ==
    [available |-> av, location |-> loc, instance_type |-> it,
     gpu_type |-> gt, gpu_count |-> gc]

NoAvailability == AvailabilityResult(FALSE, "", "", "", 0)
NoInstance == [id |-> "", status |-> ""]
NoCheck == [gpu_type |-> "", gpu_count |-> 0, location |-> "", instance_type |-> "",
            locations_to_check |-> <<>>, idx |-> 0]
NoCreate == [gpu_type |-> "", gpu_count |-> 0, location |-> "", image |-> "",
             hostname |-> <<>>, instance_type |-> "", script_id |-> "",
             volume_id |-> ""]
NoWait == [instance_id |-> "", timeout |-> 0, poll_interval |-> 0]

VARIABLES
    op,            \* the operation invoked
    args,          \* its arguments
    config,        \* the loaded configuration
    pc,            \* position in the code
    outcome,       \* "" while running, "returned", or the type of the exception raised
    results,       \* monitor: the result lines appended so far
    gpu_type,      \* monitor locals
    gpu_count,
    check_num,
    sleeps,        \* monitor: durations of the interval sleeps performed
    logged,        \* monitor: the records of logger.info("Check #...") on stderr
    probeCalls,    \* number of check_spot_availability calls
    chk,           \* check_spot_availability frame
    probed,        \* is_available calls of the current check_spot_availability call
    availability,  \* last AvailabilityResult returned
    crt,           \* create_instance frame
    sshCalls,      \* number of ssh_keys.get calls
    ssh_keys,      \* create_instance local: "some" or "none" (the empty list), "" unset
    createCalls,   \* kwargs of the instances.create calls
    instance,      \* last Instance obtained
    w,             \* wait_for_ready frame
    elapsed,
    reads,         \* states read by get_instance in wait_for_ready
    waitSleeps,    \* durations of the sleeps of wait_for_ready
    raised,        \* str(e) of the exception that left the operation, "" if none
    actionCalls,   \* provider: the instances.action calls, <<id, action>>
    now,           \* the clock, in seconds
    invocation,    \* number of the tool invocation in this process
    config_file,   \* the lines of config.yaml
    loaded,        \* config.py's _config is not None
    client_config, \* self.config of the client _get_client returns
    tool_config,   \* the local `config` of the running tool, server.py 187 and 303
    explicit,      \* parameters the caller passed with the value 0 or ""
    mon,           \* the monitors running concurrently, one frame each
    req,           \* the requests in flight on the event loop and the executor
    fin,           \* argument of the pure function applied
    fout           \* what it returned

vars == <<op, args, config, pc, outcome, results, gpu_type, gpu_count, check_num,
          sleeps, probeCalls, chk, probed, availability, crt, sshCalls, ssh_keys,
          createCalls, instance, w, elapsed, reads, waitSleeps, raised, actionCalls,
          now, invocation, config_file, loaded, client_config, tool_config,
          explicit, mon, req, fin, fout, logged>>

\* what no step of monitor, check, create or wait changes
aux == <<config_file, loaded, client_config, explicit, mon, req, fin, fout>>
given == <<op, args, config, tool_config, actionCalls, now, invocation, aux>>
inputs == <<given, logged>>
monVars == <<gpu_type, gpu_count, check_num, sleeps>>
chkVars == <<probeCalls, chk, probed>>
crtVars == <<sshCalls, ssh_keys, createCalls>>
waitVars == <<w, elapsed, reads, waitSleeps>>
\* the operation invoked and all its locals
callVars == <<op, args, pc, outcome, results, monVars, chkVars, availability, crt,
              crtVars, instance, waitVars, raised, actionCalls, now, invocation,
              logged>>
configVars == <<config_file, loaded, config, client_config, tool_config>>

\* ------------------------------------------------------------------- Init
NoArgs ==
    [gpu_type |-> "", gpu_count |-> 0, check_interval |-> 0, max_checks |-> 0,
     auto_deploy |-> FALSE, location |-> "", instance_id |-> "", timeout |-> 0,
     poll_interval |-> 0, hostname |-> "", wait_for_ready |-> FALSE,
     confirm |-> FALSE, image |-> "", script_id |-> "", volume_id |-> ""]

MonitorArgs ==
    { [NoArgs EXCEPT !.gpu_type = gt, !.gpu_count = gc, !.check_interval = ci,
                     !.max_checks = mc, !.auto_deploy = ad] :
        gt \in GpuTypeArgs, gc \in GpuCountArgs, ci \in 1..MaxInterval,
        mc \in 0..MaxChecks, ad \in BOOLEAN }

CheckArgs ==
    { [NoArgs EXCEPT !.gpu_type = gt, !.gpu_count = gc, !.location = loc] :
        gt \in GpuTypeArgs, gc \in GpuCountArgs, loc \in LocationArgs }

WaitArgs ==
    { [NoArgs EXCEPT !.instance_id = i, !.timeout = t, !.poll_interval = p] :
        i \in InstanceIds, t \in 0..MaxTimeout, p \in 0..MaxPoll }

\* deploy_spot_instance(gpu_type, gpu_count, hostname, wait_for_ready)
DeployArgs ==
    { [NoArgs EXCEPT !.gpu_type = gt, !.gpu_count = gc, !.hostname = h,
                     !.wait_for_ready = wfr] :
        gt \in GpuTypeArgs, gc \in GpuCountArgs, h \in HostnameArgs,
        wfr \in BOOLEAN }

\* client.create_instance(gpu_type, gpu_count, location, hostname)
CreateArgs ==
    { [NoArgs EXCEPT !.gpu_type = gt, !.gpu_count = gc, !.location = loc,
                     !.hostname = h] :
        gt \in GpuTypeArgs, gc \in GpuCountArgs, loc \in {"", "FIN-02"},
        h \in HostnameArgs }

\* delete_instance(instance_id, confirm)
DeleteArgs ==
    { [NoArgs EXCEPT !.instance_id = i, !.confirm = c] :
        i \in InstanceIds, c \in BOOLEAN }

\* shutdown_instance(instance_id), start_instance(instance_id)
ActionArgs == { [NoArgs EXCEPT !.instance_id = i] : i \in InstanceIds }

ArgsOf(o) ==
    CASE o = "monitor"  -> MonitorArgs
      [] o = "check"    -> CheckArgs
      [] o = "wait"     -> WaitArgs
      [] o = "deploy"   -> DeployArgs
      [] o = "create"   -> CreateArgs
      [] o = "delete"   -> DeleteArgs
      [] o = "shutdown" -> ActionArgs
      [] o = "start"    -> ActionArgs

\* where an operation starts
EntryOf(o) ==
    CASE o = "monitor"  -> "m_start"
      [] o = "check"    -> "check_entry"
      [] o = "wait"     -> "w_entry"
      [] o = "deploy"   -> "d_start"
      [] o = "create"   -> "c_entry"
      [] o = "delete"   -> "del_start"
      [] o = "shutdown" -> "act_start"
      [] o = "start"    -> "act_start"
      [] o = "set_default_script" -> "sds_start"
      [] o = "create_and_set_default_script" -> "csds_start"

\* the frames a direct call of a client method starts with
CheckFrameOf(o, a) ==
    IF o = "check"
    THEN [NoCheck EXCEPT !.gpu_type = a.gpu_type, !.gpu_count = a.gpu_count,
                         !.location = a.location]
    ELSE NoCheck

CreateFrameOf(o, a) ==
    IF o = "create"
    THEN [NoCreate EXCEPT !.gpu_type = a.gpu_type, !.gpu_count = a.gpu_count,
                          !.location = a.location, !.image = a.image,
                          !.script_id = a.script_id,
                          !.volume_id = a.volume_id,
                          !.hostname = IF a.hostname = "" THEN <<>>
                                       ELSE <<a.hostname>>]
    ELSE NoCreate

WaitFrameOf(o, a) ==
    IF o = "wait"
    THEN [instance_id |-> a.instance_id, timeout |-> a.timeout,
          poll_interval |-> a.poll_interval]
    ELSE NoWait

\* the process has loaded config.yaml and built its client
InitConfig ==
    /\ config_file \in ConfigFiles
    /\ loaded = TRUE
    /\ config = Load(safe_load(config_file))
    /\ client_config = config
    /\ tool_config = config

\* nothing else is running, no pure function is being applied
InitIdle ==
    /\ mon = <<>>
    /\ req = <<>>
    /\ fin = <<>>
    /\ fout = <<>>

\* the locals of the operation invoked
InitLocals ==
    /\ outcome = ""
    /\ results = <<>>
    /\ gpu_type = ""
    /\ gpu_count = 0
    /\ check_num = 0
    /\ sleeps = <<>>
    /\ logged = <<>>
    /\ probeCalls = 0
    /\ chk = CheckFrameOf(op, args)
    /\ probed = <<>>
    /\ availability = NoAvailability
    /\ crt = CreateFrameOf(op, args)
    /\ sshCalls = 0
    /\ ssh_keys = ""
    /\ createCalls = <<>>
    /\ instance = NoInstance
    /\ w = WaitFrameOf(op, args)
    /\ elapsed = 0
    /\ reads = <<>>
    /\ waitSleeps = <<>>
    /\ raised = ""
    /\ actionCalls = <<>>
    /\ now = 0
    /\ invocation = 1

InitFrames ==
    /\ pc = EntryOf(op)
    /\ InitLocals

\* no tool is being served
NoOperation ==
    /\ op = ""
    /\ args = NoArgs
    /\ pc = "done"
    /\ InitLocals

Init ==
    /\ op \in Ops
    /\ args \in ArgsOf(op)
    /\ InitConfig
    /\ explicit = {}
    /\ InitIdle
    /\ InitFrames

\* ---------------------------------------------------- exceptions, handlers
\* str(e) of an exception raised by a provider call: the text is the
\* provider's, the same whichever call raised it
TransportError == "transport error"

\* the exception messages of client.py 360, 365, 442
UnknownTypeMessage == "Unknown instance type"
NoKeysMessage == "No SSH keys found"
TimeoutMessage == "Instance not ready"

\* server.py 249 and 372: f"**Error**: {e}" renders str(e), not the type
Exc(type, msg) == <<"Error", msg>>

\* the part of the code a position belongs to
Phase(p) ==
    CASE p \in {"c_entry", "c_keys", "c_create"} -> "create"
      [] p \in {"w_entry", "w_read", "w_sleep"}  -> "wait"
      [] OTHER                                    -> "other"

\* mutant: `except Exception` catches a cancellation too
IsException_all(type) == TRUE

\* whether `except Exception` catches the type: asyncio.CancelledError
\* derives from BaseException, the others from Exception
IsException(type) == type # "CancelledError"

\* the handler an exception of this type meets when it leaves create_instance
\* or wait_for_ready called by operation o: the tag it is reported under, or
\* "" when nothing catches it. The monitor wraps both calls in one
\* `except Exception` (server.py 217-249); deploy_spot_instance wraps only
\* wait_for_ready, in `except TimeoutError` and `except RuntimeError`
\* (server.py 354-372)
Handle(o, phase, type) ==
    CASE o = "monitor" /\ phase \in {"create", "wait"} /\ IsException(type) -> "Error"
      [] o = "deploy" /\ phase = "wait" /\ type = "TimeoutError" -> "Warning"
      [] o = "deploy" /\ phase = "wait" /\ type = "RuntimeError" -> "Error"
      [] OTHER -> ""

\* mutant: a caught failure is reported with the lines of an exhausted monitor
HandlerLines_asExhausted(tag, type, msg) == <<<<"Timed Out", args.max_checks>>>>

\* the lines a handler appends (server.py 248-249, 367-369, 371-372)
HandlerLines(tag, type, msg) ==
    IF tag = "Warning"
    THEN << <<"Warning", msg>>, <<"Use check_instance_status">> >>
    ELSE << Exc(type, msg) >>

\* an exception leaves create_instance or wait_for_ready: a handler of the
\* calling tool reports it and the tool returns, or it leaves the operation
Raise(type, msg) ==
    LET tag == Handle(op, Phase(pc), type) IN
    /\ pc' = "done"
    /\ IF tag # ""
       THEN /\ results' = results \o HandlerLines(tag, type, msg)
            /\ outcome' = "returned" /\ raised' = raised
       ELSE /\ results' = results
            /\ outcome' = type
            /\ raised' = msg

\* mutant: the default script is read from the configuration the client
\* was built with
final_script_id_ofClient(script_id) ==
    OrStr(script_id, client_config.defaults.script_id)

\* script_id or config.defaults.script_id or None, server.py 219 and 333, of
\* the tool's local `config`: "" stands for None
final_script_id(script_id) == OrStr(script_id, tool_config.defaults.script_id)

\* mutant: the volume is the default of the configuration loaded now
final_volume_id_ofGlobal(volume_id) == OrStr(volume_id, config.defaults.volume_id)

\* volume_id or config.defaults.volume_id, server.py 218 and 319: "" stands
\* for None, and volume_ids is the list of this one id when it is truthy
final_volume_id(volume_id) == OrStr(volume_id, tool_config.defaults.volume_id)

\* ------------------------------------------------- monitor_spot_availability
\* the loop header `for check_num in range(1, max_checks + 1)`
InRange(cn, mc) == cn <= mc

\* mutant: the sleep guard lets the last attempt sleep too
ShouldSleep_afterLast(cn, mc) == cn <= mc

\* `if check_num < max_checks` before the interval sleep
ShouldSleep(cn, mc) == cn < mc

\* the argument of asyncio.sleep in the monitor loop
MonitorSleepDuration(a) == a.check_interval

\* client.check_spot_availability(gpu_type, gpu_count) as the monitor calls it
MonitorCheckFrame(gt, gc) ==
    [NoCheck EXCEPT !.gpu_type = gt, !.gpu_count = gc]

TimedOutLines == <<<<"Timed Out", args.max_checks>>>>

\* lines 187-204: defaults, header, first loop test
MonitorStart ==
    /\ pc = "m_start"
    /\ LET gt == OrStr(args.gpu_type, tool_config.defaults.gpu_type)
           gc == OrInt(args.gpu_count, tool_config.defaults.gpu_count)
           it == get_instance_type_from_gpu_type_and_count(gt, gc)
           header == <<<<"Monitoring", gt, gc, it, args.check_interval, args.max_checks>>>>
       IN /\ gpu_type' = gt
          /\ gpu_count' = gc
          /\ check_num' = 1
          /\ IF InRange(1, args.max_checks)
             THEN /\ pc' = "check_entry"
                  /\ chk' = MonitorCheckFrame(gt, gc)
                  /\ results' = header
                  /\ UNCHANGED <<outcome, raised>>
             ELSE /\ pc' = "done"
                  /\ chk' = chk
                  /\ results' = header \o TimedOutLines
                  /\ outcome' = "returned" /\ raised' = raised
    /\ UNCHANGED <<inputs, sleeps, probeCalls, probed, availability, crt, crtVars,
                   instance, waitVars>>

\* mutant: the `return` of line 256 is missing, so a found check without
\* auto_deploy falls through to the sleep like a failed one
MonitorAfterCheck_noReturn(av) ==
    LET found == IF av.available
                 THEN <<<<"SPOT AVAILABLE", check_num, av.location, av.instance_type>>>>
                 ELSE <<>>
    IN /\ crt' = crt
       /\ logged' = IF av.available THEN logged
                    ELSE Append(logged, <<"Check", check_num>>)
       /\ IF check_num < args.max_checks
          THEN /\ pc' = "m_sleep"
               /\ results' = results \o found
               /\ UNCHANGED <<outcome, raised>>
          ELSE /\ pc' = "done"
               /\ results' = results \o found \o TimedOutLines
               /\ outcome' = "returned" /\ raised' = raised

\* mutant: the monitor deploys whether asked to or not
AutoDeploy_always(a) == TRUE

\* `if auto_deploy:` (server.py 214)
AutoDeploy(a) == a.auto_deploy

\* lines 207-270: what the monitor does with the result of one check
MonitorAfterCheck(av) ==
    IF av.available
    THEN /\ results' = results
                \o <<<<"SPOT AVAILABLE", check_num, av.location, av.instance_type>>>>
                \o (IF AutoDeploy(args) THEN <<<<"Auto-deploying">>>>
                                        ELSE <<<<"Use deploy_spot_instance">>>>)
         /\ logged' = logged
         /\ IF AutoDeploy(args)
            THEN /\ pc' = "c_entry"
                 /\ crt' = [NoCreate EXCEPT !.gpu_type = gpu_type,
                                            !.gpu_count = gpu_count,
                                            !.location = av.location,
                                            !.volume_id = final_volume_id(args.volume_id),
                                            !.script_id = final_script_id(args.script_id)]
                 /\ UNCHANGED <<outcome, raised>>
            ELSE /\ pc' = "done"
                 /\ crt' = crt
                 /\ outcome' = "returned" /\ raised' = raised
    ELSE /\ crt' = crt
         \* line 259: logger.info(f"Check #{check_num}: No ... spots available")
         /\ logged' = Append(logged, <<"Check", check_num>>)
         /\ IF ShouldSleep(check_num, args.max_checks)
            THEN /\ pc' = "m_sleep"
                 /\ results' = results
                 /\ UNCHANGED <<outcome, raised>>
            ELSE \* range(1, max_checks + 1) is exhausted
                 /\ pc' = "done"
                 /\ results' = results \o TimedOutLines
                 /\ outcome' = "returned" /\ raised' = raised

\* lines 262, 204-205: the interval sleep, then the next iteration's check
MonitorSleep ==
    /\ pc = "m_sleep"
    /\ sleeps' = Append(sleeps, MonitorSleepDuration(args))
    /\ check_num' = check_num + 1
    /\ IF InRange(check_num + 1, args.max_checks)
       THEN /\ pc' = "check_entry"
            /\ chk' = MonitorCheckFrame(gpu_type, gpu_count)
            /\ UNCHANGED <<results, outcome, raised>>
       ELSE /\ pc' = "done"
            /\ chk' = chk
            /\ results' = results \o TimedOutLines
            /\ outcome' = "returned" /\ raised' = raised
    /\ UNCHANGED <<inputs, gpu_type, gpu_count, probeCalls, probed, availability,
                   crt, crtVars, instance, waitVars>>

\* ------------------------------------------------------ deploy_spot_instance
\* datetime.now().strftime("%Y%m%d-%H%M%S"): the clock counts half seconds,
\* the format keeps whole seconds
Strftime(t) == t \div 2

\* server.py 323-324: `hostname or f"{prefix}-{ts}"`
DeployHostname(h, t) ==
    IF h # "" THEN <<h>> ELSE <<tool_config.defaults.hostname_prefix, "ts", Strftime(t)>>

NotAvailableLines == <<<<"Deployment Failed", gpu_type, gpu_count>>>>

\* server.py 302-309: defaults, then the availability check
DeployStart ==
    /\ pc = "d_start"
    /\ LET gt == OrStr(args.gpu_type, tool_config.defaults.gpu_type)
           gc == OrInt(args.gpu_count, tool_config.defaults.gpu_count)
       IN /\ gpu_type' = gt
          /\ gpu_count' = gc
          /\ chk' = MonitorCheckFrame(gt, gc)
    /\ pc' = "check_entry"
    /\ UNCHANGED <<inputs, outcome, raised, results, check_num, sleeps, probeCalls,
                   probed, availability, crt, crtVars, instance, waitVars>>

\* server.py 311-334: what deploy_spot_instance does with the result of its check
DeployAfterCheck(av) ==
    IF ~av.available
    THEN /\ results' = NotAvailableLines
         /\ pc' = "done"
         /\ outcome' = "returned" /\ raised' = raised
         /\ crt' = crt
    ELSE /\ crt' = [NoCreate EXCEPT !.gpu_type = gpu_type,
                                    !.gpu_count = gpu_count,
                                    !.location = av.location,
                                    !.image = args.image,
                                    !.volume_id = final_volume_id(args.volume_id),
                                    !.script_id = final_script_id(args.script_id),
                                    !.hostname = DeployHostname(args.hostname, now)]
         /\ pc' = "c_entry"
         /\ UNCHANGED <<results, outcome, raised>>

\* ------------------------------------------- client.check_spot_availability
\* mutant: the unpinned scan walks the candidate list backwards
LocationsToCheck_reversed(location) ==
    IF location # "" THEN <<location>>
    ELSE [i \in 1..Len(LOCATION_CODES) |-> LOCATION_CODES[Len(LOCATION_CODES) + 1 - i]]

\* mutant: every candidate location is tried a second time
LocationsToCheck_retried(location) ==
    IF location # "" THEN <<location, location>> ELSE LOCATION_CODES \o LOCATION_CODES

\* mutant: a pinned location is ignored and the fixed set is scanned
LocationsToCheck_pinIgnored(location) == LOCATION_CODES

\* `locations_to_check = [location] if location else LOCATION_CODES`
LocationsToCheck(location) ==
    IF location # "" THEN <<location>> ELSE LOCATION_CODES

\* whether the scan goes on to another location after location number idx
MoreLocations(idx, locs) == idx < Len(locs)

\* mutant: the found result names the head of the candidate list
FoundResult_firstLocation(loc, c) ==
    AvailabilityResult(TRUE, c.locations_to_check[1], c.instance_type, c.gpu_type,
                       c.gpu_count)

\* mutant: the found result carries no instance type
FoundResult_noSku(loc, c) ==
    AvailabilityResult(TRUE, loc, "", c.gpu_type, c.gpu_count)

\* the result a found location yields (lines 274-280)
FoundResult(loc, c) ==
    AvailabilityResult(TRUE, loc, c.instance_type, c.gpu_type, c.gpu_count)

\* mutant: the not-found result keeps the last location scanned
NotFoundResult_lastLocation(c) ==
    AvailabilityResult(FALSE, c.locations_to_check[Len(c.locations_to_check)],
                       c.instance_type, c.gpu_type, c.gpu_count)

\* the result after the last location (lines 285-291)
NotFoundResult(c) ==
    AvailabilityResult(FALSE, "", c.instance_type, c.gpu_type, c.gpu_count)

\* mutant: the result for an unresolvable shape names the default location
UnknownTypeResult_defaultLocation(gt, gc) ==
    AvailabilityResult(FALSE, client_config.defaults.location, "", gt, gc)

\* the result for an unresolvable shape (lines 254-260)
UnknownTypeResult(gt, gc) == AvailabilityResult(FALSE, "", "", gt, gc)

\* mutant: no try/except around the is_available call
ProbeStep_propagate(answer) ==
    CASE answer = "available"   -> "found"
      [] answer = "unavailable" -> "next"
      [] answer = "error"       -> "raise"

\* mutant: the scan goes on after a location answered available
ProbeStep_noShortCircuit(answer) == "next"

\* what one is_available answer means for the scan: "found", "next" when the
\* answer is falsy or the call raised (`except Exception: continue`), and
\* "raise" for an exception that leaves the scan (none does)
ProbeStep(answer) ==
    CASE answer = "available"   -> "found"
      [] answer = "unavailable" -> "next"
      [] answer = "error"       -> "next"

\* check_spot_availability returns av to its caller
ReturnFromCheck(av) ==
    /\ availability' = av
    /\ CASE op = "monitor" -> MonitorAfterCheck(av)
         [] op = "deploy"  -> DeployAfterCheck(av) /\ logged' = logged
         [] OTHER -> /\ pc' = "done"
                     /\ outcome' = "returned" /\ raised' = raised
                     /\ UNCHANGED <<results, crt, logged>>

\* lines 246-262: defaults, resolver, choice of the locations
CheckEntry ==
    /\ pc = "check_entry"
    /\ probeCalls' = probeCalls + 1
    /\ probed' = <<>>
    /\ LET gt == OrStr(chk.gpu_type, client_config.defaults.gpu_type)
           gc == OrInt(chk.gpu_count, client_config.defaults.gpu_count)
           it == get_instance_type_from_gpu_type_and_count(gt, gc)
       IN IF Unresolved(it)
          THEN /\ chk' = [chk EXCEPT !.gpu_type = gt, !.gpu_count = gc,
                                     !.instance_type = it]
               /\ ReturnFromCheck(UnknownTypeResult(gt, gc))
          ELSE /\ chk' = [chk EXCEPT !.gpu_type = gt, !.gpu_count = gc,
                                     !.instance_type = it,
                                     !.locations_to_check = LocationsToCheck(chk.location),
                                     !.idx = 1]
               /\ pc' = "probe"
               /\ UNCHANGED <<availability, results, outcome, raised, crt, logged>>
    /\ UNCHANGED <<given, monVars, crtVars, instance, waitVars>>

\* lines 264-291: one is_available call and what follows it
ProbeLocation ==
    /\ pc = "probe"
    /\ \E answer \in ProbeAnswers :
         LET loc == chk.locations_to_check[chk.idx] IN
         /\ probed' = Append(probed, <<loc, answer>>)
         /\ IF ProbeStep(answer) = "found"
            THEN /\ chk' = chk
                 /\ ReturnFromCheck(FoundResult(loc, chk))
            ELSE IF ProbeStep(answer) = "raise"
            THEN \* an exception nothing catches: neither the scan nor the
                 \* monitor loop has a handler around this point
                 /\ chk' = chk
                 /\ pc' = "done"
                 /\ outcome' = "Exception"
                 /\ raised' = TransportError
                 /\ UNCHANGED <<availability, results, crt, logged>>
            ELSE IF MoreLocations(chk.idx, chk.locations_to_check)
            THEN /\ chk' = [chk EXCEPT !.idx = chk.idx + 1]
                 /\ UNCHANGED <<pc, availability, results, outcome, raised, crt,
                                logged>>
            ELSE /\ chk' = chk
                 /\ ReturnFromCheck(NotFoundResult(chk))
    /\ UNCHANGED <<given, monVars, probeCalls, crtVars, instance, waitVars>>

\* ---------------------------------------------------- client.create_instance
\* lines 351-360: defaults and resolver
CreateEntry ==
    /\ pc = "c_entry"
    /\ LET gt == OrStr(crt.gpu_type, client_config.defaults.gpu_type)
           gc == OrInt(crt.gpu_count, client_config.defaults.gpu_count)
           it == get_instance_type_from_gpu_type_and_count(gt, gc)
       IN IF Unresolved(it)
          THEN /\ crt' = crt
               /\ Raise("ValueError", UnknownTypeMessage)
          ELSE /\ crt' = [crt EXCEPT !.gpu_type = gt, !.gpu_count = gc,
                            !.location = OrStr(crt.location,
                                                 client_config.defaults.location),
                            !.image = OrStr(crt.image, client_config.defaults.image),
                            !.instance_type = it]
               /\ pc' = "c_keys"
               /\ UNCHANGED <<results, outcome, raised>>
    /\ UNCHANGED <<inputs, monVars, chkVars, availability, crtVars, instance, waitVars>>

\* mutant: the `if not ssh_keys` test is missing
KeysStep_noTest(answer) ==
    CASE answer = "error" -> "raise"
      [] answer = "none"  -> "go"
      [] answer = "some"  -> "go"

\* what the answer of ssh_keys.get means: the call raised, the list is empty
\* (`if not ssh_keys`), or create_instance goes on
KeysStep(answer) ==
    CASE answer = "error" -> "raise"
      [] answer = "none"  -> "nokeys"
      [] answer = "some"  -> "go"

\* lines 363-366: the SSH keys
CreateKeys ==
    /\ pc = "c_keys"
    /\ sshCalls' = sshCalls + 1
    /\ \E answer \in KeyAnswers :
         /\ ssh_keys' = IF answer = "error" THEN ssh_keys ELSE answer
         /\ CASE KeysStep(answer) = "raise"  -> Raise("Exception", TransportError)
              [] KeysStep(answer) = "nokeys" -> Raise("ValueError", NoKeysMessage)
              [] KeysStep(answer) = "go"     ->
                     /\ pc' = "c_create"
                     /\ UNCHANGED <<results, outcome, raised>>
    /\ UNCHANGED <<inputs, monVars, chkVars, availability, crt, createCalls,
                   instance, waitVars>>

\* lines 369-379: the kwargs of instances.create
CreateKwargs(c) ==
    [instance_type |-> c.instance_type, image |-> c.image, location |-> c.location,
     hostname |-> IF c.hostname # <<>> THEN c.hostname
                  ELSE <<client_config.defaults.hostname_prefix, c.gpu_count>>,
     is_spot |-> TRUE,
     \* the key is set only `if script_id`: "" stands for its absence
     startup_script_id |-> c.script_id,
     \* and so is this one, `if volume_ids`: a list of one id, or absent
     existing_volumes |-> c.volume_id]

\* mutant: the wait is asked for an instance id other than the created one
WaitArg_other(inst) == CHOOSE i \in InstanceIds : i # inst.id

\* the argument of client.wait_for_ready(instance.id), server.py 236 and 355
WaitArg(inst) == inst.id

\* create_instance returns inst to its caller: the monitor reports it and
\* waits (server.py 230-236), deploy_spot_instance reports it and waits if
\* wait_for_ready (server.py 336-355), a direct caller receives it
ReturnFromCreate(inst) ==
    CASE op = "monitor" ->
            /\ results' = Append(results, <<"Instance Created", inst.id>>)
            /\ w' = [NoWait EXCEPT !.instance_id = WaitArg(inst)]
            /\ pc' = "w_entry"
            /\ UNCHANGED <<outcome, raised>>
      [] op = "deploy" ->
            /\ results' = <<<<"Instance Created", inst.id, availability.location>>>>
            /\ IF args.wait_for_ready
               THEN /\ w' = [NoWait EXCEPT !.instance_id = WaitArg(inst)]
                    /\ pc' = "w_entry"
                    /\ UNCHANGED <<outcome, raised>>
               ELSE /\ w' = w
                    /\ pc' = "done"
                    /\ outcome' = "returned" /\ raised' = raised
      [] OTHER ->
            /\ pc' = "done"
            /\ outcome' = "returned" /\ raised' = raised
            /\ UNCHANGED <<results, w>>

\* lines 388-389: the create call
CreateCall ==
    /\ pc = "c_create"
    /\ createCalls' = Append(createCalls, CreateKwargs(crt))
    /\ \E answer \in CreateAnswers :
         IF answer = "error"
         THEN /\ Raise("Exception", TransportError)
              /\ UNCHANGED <<instance, w>>
         ELSE \E i \in InstanceIds :
              /\ instance' = from_sdk([id |-> i, status |-> "provisioning"])
              /\ ReturnFromCreate(instance')
    /\ UNCHANGED <<inputs, monVars, chkVars, availability, crt, sshCalls, ssh_keys,
                   elapsed, reads, waitSleeps>>

\* ------------------------------------------------------ client.wait_for_ready
\* mutant: the loop test lets elapsed = timeout through
LoopContinues_inclusive(e, timeout) == e <= timeout

\* `while elapsed < timeout`
LoopContinues(e, timeout) == e < timeout

\* mutant: the success test compares with the capitalised name
Classify_capitalised(status) ==
    IF status = "Running" THEN "ready"
    ELSE IF status \in {"error", "failed", "terminated"} THEN "failed"
    ELSE "poll"

\* mutant: "terminated" is missing from the failure tuple
Classify_noTerminated(status) ==
    IF status = "running" THEN "ready"
    ELSE IF status \in {"error", "failed"} THEN "failed"
    ELSE "poll"

\* mutant: "unknown" is taken for a failure
Classify_unknownFails(status) ==
    IF status = "running" THEN "ready"
    ELSE IF status \in {"error", "failed", "terminated", "unknown"} THEN "failed"
    ELSE "poll"

\* lines 432-438: what a read status means for the wait
Classify(status) ==
    IF status = "running" THEN "ready"
    ELSE IF status \in {"error", "failed", "terminated"} THEN "failed"
    ELSE "poll"

\* `elapsed += poll_interval`
NextElapsed(e, poll) == e + poll

\* the argument of asyncio.sleep in the wait loop
WaitSleepDuration(frame) == frame.poll_interval

\* wait_for_ready returns the instance: server.py 238-245 for the monitor,
\* 356-365 for deploy_spot_instance
ReturnFromWait ==
    /\ pc' = "done"
    /\ outcome' = "returned" /\ raised' = raised
    /\ results' = IF op \in {"monitor", "deploy"}
                  THEN Append(results, <<"Instance Ready", instance'.id>>)
                  ELSE results

\* lines 425-429: defaults, elapsed = 0, first loop test
WaitEntry ==
    /\ pc = "w_entry"
    /\ LET timeout == OrInt(w.timeout, client_config.deployment.ready_timeout)
           poll == OrInt(w.poll_interval, client_config.deployment.poll_interval)
       IN /\ w' = [w EXCEPT !.timeout = timeout, !.poll_interval = poll]
          /\ elapsed' = 0
          /\ IF LoopContinues(0, timeout)
             THEN /\ pc' = "w_read"
                  /\ UNCHANGED <<results, outcome, raised>>
             ELSE Raise("TimeoutError", TimeoutMessage)
    /\ UNCHANGED <<inputs, monVars, chkVars, availability, crt, crtVars, instance,
                   reads, waitSleeps>>

\* lines 430-438: one get_instance read and its classification
WaitRead ==
    /\ pc = "w_read"
    /\ \/ \* get_by_id raises
          /\ reads' = Append(reads, "<raised>")
          /\ instance' = instance
          /\ Raise("Exception", TransportError)
       \/ \E inst \in {x \in SdkInstances : x.id = w.instance_id} :
          /\ instance' = from_sdk(inst)
          /\ reads' = Append(reads, instance'.status)
          /\ CASE Classify(instance'.status) = "ready"  -> ReturnFromWait
               [] Classify(instance'.status) = "failed" ->
                      Raise("RuntimeError", instance'.status)
               [] Classify(instance'.status) = "poll"   ->
                      /\ pc' = "w_sleep"
                      /\ UNCHANGED <<results, outcome, raised>>
    /\ UNCHANGED <<inputs, monVars, chkVars, availability, crt, crtVars, w, elapsed,
                   waitSleeps>>

\* lines 439-442: the sleep, the elapsed accumulation, the next loop test
WaitSleep ==
    /\ pc = "w_sleep"
    /\ waitSleeps' = Append(waitSleeps, WaitSleepDuration(w))
    /\ elapsed' = NextElapsed(elapsed, w.poll_interval)
    /\ IF LoopContinues(elapsed', w.timeout)
       THEN /\ pc' = "w_read"
            /\ UNCHANGED <<results, outcome, raised>>
       ELSE Raise("TimeoutError", TimeoutMessage)
    /\ UNCHANGED <<inputs, monVars, chkVars, availability, crt, crtVars, instance, w,
                   reads>>

\* ----------------------------------------------------- instance control tools
\* mutant: the confirmation flag is not tested
Confirmed_always(a) == TRUE

\* server.py 393: `if not confirm` guards the delete
Confirmed(a) == a.confirm

\* the action name each tool passes to client.instance_action
ActionOf(o) ==
    CASE o = "delete"   -> "delete"
      [] o = "shutdown" -> "shutdown"
      [] o = "start"    -> "boot"

\* client.py 398-399: instances.action(instance_id, action); an exception
\* of the provider leaves the tool
InstanceAction(id, action) ==
    /\ actionCalls' = Append(actionCalls, <<id, action>>)
    /\ pc' = "done"
    /\ \E answer \in {"ok", "error"} :
         IF answer = "error"
         THEN /\ outcome' = "Exception"
              /\ raised' = TransportError
              /\ results' = results
         ELSE /\ outcome' = "returned" /\ raised' = raised
              /\ results' = <<<<"Action Initiated", action, id>>>>

\* delete_instance, server.py 382-401
DeleteInstance ==
    /\ pc = "del_start"
    /\ IF ~Confirmed(args)
       THEN /\ results' = <<<<"Safety Check", args.instance_id>>>>
            /\ pc' = "done"
            /\ outcome' = "returned" /\ raised' = raised
            /\ actionCalls' = actionCalls
       ELSE InstanceAction(args.instance_id, ActionOf(op))
    /\ UNCHANGED <<op, args, config, now, invocation, monVars, chkVars, availability,
                   crt, crtVars, instance, waitVars, aux, tool_config, logged>>

\* shutdown_instance and start_instance, server.py 404-434
ControlInstance ==
    /\ pc = "act_start"
    /\ InstanceAction(args.instance_id, ActionOf(op))
    /\ UNCHANGED <<op, args, config, now, invocation, monVars, chkVars, availability,
                   crt, crtVars, instance, waitVars, aux, tool_config, logged>>

\* --------------------------------------------------------------- the system
Next ==
    \/ DeployStart
    \/ DeleteInstance
    \/ ControlInstance
    \/ MonitorStart
    \/ MonitorSleep
    \/ CheckEntry
    \/ ProbeLocation
    \/ CreateEntry
    \/ CreateKeys
    \/ CreateCall
    \/ WaitEntry
    \/ WaitRead
    \/ WaitSleep

Spec == Init /\ [][Next]_vars

\* ------------------------------------------ several invocations, one process
\* the tools and calls a process is asked for one after the other
SeqOps == {"monitor", "deploy", "create", "delete", "shutdown", "start"}

\* the arguments they are asked with: hostnames are omitted, the monitor
\* either polls twice without deploying or deploys at its only check
SeqArgsOf(o) ==
    CASE o = "monitor" ->
            { [NoArgs EXCEPT !.gpu_type = "B300", !.gpu_count = 1,
                             !.check_interval = 1, !.max_checks = mc,
                             !.auto_deploy = (mc = 1)] : mc \in {1, 2} }
      [] o = "deploy" -> { NoArgs }
      [] o = "create" -> { NoArgs }
      [] OTHER -> { a \in ArgsOf(o) : a.instance_id = "i-1" }

\* the time between the end of one invocation and the start of the next, in
\* half seconds
Delays == {1, 2}

InitSeq ==
    /\ Init
    /\ op \in SeqOps
    /\ args \in SeqArgsOf(op)
    /\ config.deployment.ready_timeout = 3

\* the process starts on operation o with arguments a: its locals start
\* afresh, the calls the provider has received stay made
StartOperation(o, a) ==
    /\ op' = o
    /\ args' = a
    /\ pc' = EntryOf(o)
    /\ chk' = CheckFrameOf(o, a)
    /\ crt' = CreateFrameOf(o, a)
    /\ w' = WaitFrameOf(o, a)
    /\ outcome' = ""
    /\ raised' = ""
    /\ results' = <<>>
    /\ gpu_type' = ""
    /\ gpu_count' = 0
    /\ check_num' = 0
    /\ sleeps' = <<>>
    /\ probeCalls' = 0
    /\ probed' = <<>>
    /\ availability' = NoAvailability
    /\ sshCalls' = 0
    /\ ssh_keys' = ""
    /\ instance' = NoInstance
    /\ elapsed' = 0
    /\ reads' = <<>>
    /\ waitSleeps' = <<>>
    /\ tool_config' = config
    /\ UNCHANGED <<config, createCalls, actionCalls, aux, logged>>

\* the operation has ended and the process is asked for the next one, some
\* time later
Invoke ==
    /\ pc = "done"
    /\ invocation < MaxInvocations
    /\ invocation' = invocation + 1
    /\ \E d \in Delays : now' = now + d
    /\ \E o \in SeqOps : \E a \in SeqArgsOf(o) : StartOperation(o, a)

NextSeq ==
    \/ Next
    \/ Invoke

SpecSeq == InitSeq /\ [][NextSeq]_vars

\* ------------------------------------------------------------ cancellation
\* the arguments of the tools and of the call that sleep between attempts
CancelArgsOf(o) ==
    CASE o = "monitor" ->
            { [NoArgs EXCEPT !.gpu_type = "B300", !.gpu_count = 1,
                             !.check_interval = ci, !.max_checks = mc,
                             !.auto_deploy = ad] :
                ci \in 1..MaxInterval, mc \in 1..MaxChecks, ad \in BOOLEAN }
      [] o = "wait" -> { a \in WaitArgs : a.instance_id = "i-1" }
      [] o = "deploy" -> { [NoArgs EXCEPT !.wait_for_ready = wfr] : wfr \in BOOLEAN }

InitCancel ==
    /\ op \in {"monitor", "wait", "deploy"}
    /\ args \in CancelArgsOf(op)
    /\ InitConfig
    /\ explicit = {}
    /\ InitIdle
    /\ InitFrames

\* the task is cancelled while it is suspended in asyncio.sleep
\* (server.py 262, client.py 439): CancelledError is raised at that await
Cancel ==
    /\ pc \in {"m_sleep", "w_sleep"}
    /\ Raise("CancelledError", "")
    /\ UNCHANGED <<inputs, monVars, chkVars, availability, crt, crtVars, instance,
                   waitVars>>

NextCancel ==
    \/ MonitorStart
    \/ MonitorSleep
    \/ DeployStart
    \/ CheckEntry
    \/ ProbeLocation
    \/ CreateEntry
    \/ CreateKeys
    \/ CreateCall
    \/ WaitEntry
    \/ WaitRead
    \/ WaitSleep
    \/ Cancel

SpecCancel == InitCancel /\ [][NextCancel]_vars

\* ------------------------------------------------- config.py, called on its own
ScriptIds == {"", "s-1", "s-2"}

\* the argument of update_config_file that sets the default script
ScriptUpdate(x) == [defaults |-> Dict([script_id |-> Scalar(x)])]

\* the arguments update_config_file is called with: the default script,
\* another default, a deployment timing, and a section overwritten by a
\* scalar
Updates ==
    { ScriptUpdate(x) : x \in ScriptIds }
    \cup { [defaults |-> Dict([gpu_type |-> Scalar("H200")])],
           [deployment |-> Dict([ready_timeout |-> Scalar(4)])],
           [defaults |-> Scalar("none")] }

\* the config.yaml the process starts with: without a defaults section, or
\* with one that names a script or a GPU type
StartFiles ==
    ConfigFiles
    \cup { dump(ConfigData(3) @@ [defaults |-> Dict(d)], <<>>) :
             d \in { [script_id |-> Scalar("s-1")], [gpu_type |-> Scalar("B200")] } }

\* a second file, which reload_config can be pointed at
OtherFile ==
    dump(ConfigData(4) @@ [defaults |-> Dict([script_id |-> Scalar("s-2")])], <<>>)

FileAt(path) == IF path = "default" THEN config_file ELSE OtherFile

\* the call made last and its outcome
Called(name, x) == [call |-> name, script_id |-> x]

\* the module has just been imported: _config is None, which loaded = FALSE
\* says, config holding a value no one reads
InitConfigModule ==
    /\ NoOperation
    /\ config_file \in StartFiles
    /\ loaded = FALSE
    /\ config = Load(safe_load(OtherFile))
    /\ client_config = config
    /\ tool_config = config
    /\ explicit = {}
    /\ mon = <<>>
    /\ req = <<>>
    /\ fin = Called("", <<>>)
    /\ fout = <<>>

\* what get_config() returns in this state, provided the load does not raise
get_config_value == IF loaded THEN config ELSE Load(safe_load(config_file))

\* get_config, config.py 145-154
GetConfig ==
    /\ fin' = Called("get_config", <<>>)
    /\ IF ~loaded /\ LoadRaises(safe_load(config_file))
       THEN /\ fout' = <<"raised">>
            /\ UNCHANGED <<loaded, config>>
       ELSE /\ fout' = <<"returned", get_config_value>>
            /\ loaded' = TRUE
            /\ config' = get_config_value
    /\ UNCHANGED <<callVars, config_file, client_config, tool_config, explicit, mon, req>>

\* reload_config(config_path), config.py 157-168
ReloadConfig(path) ==
    /\ fin' = Called("reload_config", <<>>)
    /\ IF LoadRaises(safe_load(FileAt(path)))
       THEN /\ fout' = <<"raised">>
            /\ UNCHANGED <<loaded, config>>
       ELSE /\ fout' = <<"returned", Load(safe_load(FileAt(path)))>>
            /\ loaded' = TRUE
            /\ config' = Load(safe_load(FileAt(path)))
    /\ UNCHANGED <<callVars, config_file, client_config, tool_config, explicit, mon, req>>

\* mutant: update_config_file writes the file and leaves _config as it is
AfterUpdate_noReload(file, old) == old

\* _config once update_config_file has written the file: reload_config()
\* reads it back (config.py 201-202)
AfterUpdate(file, old) == Load(safe_load(file))

\* update_config_file(updates), config.py 171-202: the file is rewritten
\* with the updates merged in, then reloaded; a load that raises leaves
\* _config as it was
WriteAndReload(updates) ==
    /\ config_file' = dump(deep_merge(safe_load(config_file), updates), <<>>)
    /\ IF LoadRaises(safe_load(config_file'))
       THEN UNCHANGED <<loaded, config>>
       ELSE /\ loaded' = TRUE
            /\ config' = AfterUpdate(config_file', config)

\* update_config_file called on its own
UpdateConfigFile(updates) ==
    LET x == IF updates \in { ScriptUpdate(i) : i \in ScriptIds }
             THEN <<updates.defaults.v.script_id.v>> ELSE <<>>
    IN /\ fin' = Called("update_config_file", x)
       /\ WriteAndReload(updates)
       /\ fout' = IF LoadRaises(safe_load(config_file'))
                  THEN <<"raised">> ELSE <<"returned">>
       /\ UNCHANGED <<callVars, client_config, tool_config, explicit, mon, req>>

NextConfigModule ==
    \/ GetConfig
    \/ \E path \in {"default", "other"} : ReloadConfig(path)
    \/ \E updates \in Updates : UpdateConfigFile(updates)

SpecConfigModule == InitConfigModule /\ [][NextConfigModule]_vars

\* ------------------------------------------------- the default startup script
\* the tools that set the default script and those that deploy with it
ScriptOps == {"set_default_script", "create_and_set_default_script", "deploy", "monitor"}

\* the ids of the scripts the account holds or the provider creates
AccountScripts == {"s-1", "s-2"}

\* the deploying tools are asked with or without a script of the caller's
ScriptArgsOf(o) ==
    CASE o = "set_default_script" ->
            { [NoArgs EXCEPT !.script_id = x] : x \in AccountScripts }
      [] o = "create_and_set_default_script" -> { NoArgs }
      [] o = "deploy" -> { [NoArgs EXCEPT !.script_id = x] : x \in {"", "s-9"} }
      [] o = "monitor" ->
            { [NoArgs EXCEPT !.gpu_type = "B300", !.gpu_count = 1,
                             !.check_interval = 1, !.max_checks = 1,
                             !.auto_deploy = TRUE, !.script_id = x] : x \in {"", "s-9"} }

\* the process has loaded its configuration, with or without a default
\* script, and built its client from it
InitScript ==
    /\ op \in ScriptOps
    /\ args \in ScriptArgsOf(op)
    /\ config_file \in { f \in StartFiles : Load(safe_load(f)).deployment.ready_timeout = 3 }
    /\ loaded = TRUE
    /\ config = Load(safe_load(config_file))
    /\ client_config = config
    /\ tool_config = config
    /\ explicit = {}
    /\ mon = <<>>
    /\ req = <<>>
    /\ fin = Called("", <<>>)
    /\ fout = <<>>
    /\ InitFrames

\* the tool has the provider's script and makes it the default: fin keeps the
\* last default a tool has set
MakeDefault(id) ==
    /\ WriteAndReload(ScriptUpdate(id))
    /\ pc' = "done"
    /\ IF LoadRaises(safe_load(config_file'))
       THEN /\ outcome' = "AttributeError" /\ raised' = "" /\ results' = results
            /\ fin' = fin
       ELSE /\ outcome' = "returned" /\ raised' = raised
            /\ results' = <<<<"Default Script Updated", id>>>>
            /\ fin' = Called(op, <<id>>)

\* the provider call of the tool raised
ScriptCallFails ==
    /\ pc' = "done"
    /\ outcome' = "Exception"
    /\ raised' = TransportError
    /\ UNCHANGED <<results, fin, config_file, loaded, config>>

\* set_default_script, server.py 692-715
SetDefaultScript ==
    /\ pc = "sds_start"
    /\ \/ MakeDefault(args.script_id)
       \/ ScriptCallFails
    /\ UNCHANGED <<op, args, actionCalls, now, invocation, client_config,
                   tool_config, logged, explicit, mon, req, fout, monVars, chkVars,
                   availability, crt, crtVars, instance, waitVars>>

\* create_and_set_default_script, server.py 662-689
CreateAndSetDefaultScript ==
    /\ pc = "csds_start"
    /\ \/ \E id \in AccountScripts : MakeDefault(id)
       \/ ScriptCallFails
    /\ UNCHANGED <<op, args, actionCalls, now, invocation, client_config,
                   tool_config, logged, explicit, mon, req, fout, monVars, chkVars,
                   availability, crt, crtVars, instance, waitVars>>

\* the tool has ended and the process is asked for the next one
InvokeScript ==
    /\ pc = "done"
    /\ invocation < MaxInvocations
    /\ invocation' = invocation + 1
    /\ now' = now + 1
    /\ \E o \in ScriptOps : \E a \in ScriptArgsOf(o) : StartOperation(o, a)

NextScript ==
    \/ SetDefaultScript
    \/ CreateAndSetDefaultScript
    \/ DeployStart
    \/ MonitorStart
    \/ CheckEntry
    \/ ProbeLocation
    \/ CreateEntry
    \/ CreateKeys
    \/ CreateCall
    \/ WaitEntry
    \/ WaitRead
    \/ WaitSleep
    \/ InvokeScript

SpecScript == InitScript /\ [][NextScript]_vars


\* ------------------------------- a monitor and a concurrent change of defaults
\* what another request writes while the monitor is suspended:
\* set_default_script (server.py 708), or update_config_file with another
\* default
ConcurrentUpdates ==
    { ScriptUpdate("s-2"),
      [defaults |-> Dict([volume_id |-> Scalar("v-2")])],
      [defaults |-> Dict([gpu_type |-> Scalar("H200")])] }

\* the points where the monitor is suspended in an await: a provider call
\* running in the executor, or a sleep
Suspended == pc \in {"probe", "m_sleep", "c_keys", "c_create", "w_read", "w_sleep"}

\* an auto-deploying monitor starts on a configuration with or without a
\* default script and volume
InitConcurrent ==
    /\ op = "monitor"
    /\ args \in { [NoArgs EXCEPT !.check_interval = 1, !.max_checks = mc,
                                 !.auto_deploy = TRUE, !.script_id = ids[1],
                                 !.volume_id = ids[2]] :
                     mc \in 1..MaxConcurrentChecks,
                     ids \in {<<"", "">>, <<"s-9", "">>, <<"", "v-9">>} }
    /\ config_file \in
          { dump(ConfigData(3) @@ [defaults |-> Dict(d)], <<>>) :
              d \in { [script_id |-> Scalar("s-1"), volume_id |-> Scalar("v-1")],
                      [gpu_type |-> Scalar("B300")] } }
    /\ loaded = TRUE
    /\ config = Load(safe_load(config_file))
    /\ client_config = config
    /\ tool_config = config
    /\ explicit = {}
    /\ mon = <<>>
    /\ req = <<>>
    /\ fin = Called("", <<>>)
    /\ fout = <<>>
    /\ InitFrames

\* update_config_file has no await: the request that calls it runs from the
\* read of the file to reload_config() while the monitor stays suspended
ConcurrentUpdate ==
    /\ Suspended
    /\ \E updates \in ConcurrentUpdates : WriteAndReload(updates)
    /\ UNCHANGED <<callVars, client_config, tool_config, explicit, mon, req, fin,
                   fout>>

NextConcurrent ==
    \/ MonitorStart
    \/ MonitorSleep
    \/ CheckEntry
    \/ ProbeLocation
    \/ CreateEntry
    \/ CreateKeys
    \/ CreateCall
    \/ WaitEntry
    \/ WaitRead
    \/ WaitSleep
    \/ ConcurrentUpdate

SpecConcurrent == InitConcurrent /\ [][NextConcurrent]_vars

\* ------------------------------------------------------------ show_config
\* mutant: the settings section prints the client secret
SettingsLines_withSecret(cfg) ==
    << <<"Ready Timeout", cfg.deployment.ready_timeout, "s">>,
       <<"Poll Interval", cfg.deployment.poll_interval, "s">>,
       <<"Use Spot", cfg.deployment.use_spot>>,
       <<"Client Secret", cfg.client_secret>> >>

\* the lines under "## Deployment Settings", server.py 754-757
SettingsLines(cfg) ==
    << <<"Ready Timeout", cfg.deployment.ready_timeout, "s">>,
       <<"Poll Interval", cfg.deployment.poll_interval, "s">>,
       <<"Use Spot", cfg.deployment.use_spot>> >>

\* the lines show_config returns for the configuration get_config gives it,
\* server.py 731-758
show_config(cfg) ==
    << <<"GPU Type", cfg.defaults.gpu_type>>,
       <<"GPU Count", cfg.defaults.gpu_count>>,
       <<"Instance Type",
         get_instance_type_from_gpu_type_and_count(cfg.defaults.gpu_type,
                                                   cfg.defaults.gpu_count)>>,
       <<"Location", cfg.defaults.location>>,
       <<"Image", cfg.defaults.image>>,
       <<"Hostname Prefix", cfg.defaults.hostname_prefix>>,
       <<"Volume ID", OrStr(cfg.defaults.volume_id, "(not set)")>>,
       <<"Script ID", OrStr(cfg.defaults.script_id, "(not set)")>> >>
    \o SettingsLines(cfg)

\* a config.yaml with these credentials and these defaults
ShowData(id, secret, gt, gc, vol, sid) ==
    [ client_id     |-> Scalar(id),
      client_secret |-> Scalar(secret),
      defaults      |-> Dict([gpu_type |-> Scalar(gt), gpu_count |-> Scalar(gc),
                              volume_id |-> Scalar(vol), script_id |-> Scalar(sid)]) ]

\* two processes whose config.yaml files differ in the credentials at most:
\* fin holds the configuration each has loaded
InitShow ==
    /\ NoOperation
    /\ InitConfig
    /\ explicit = {}
    /\ mon = <<>>
    /\ req = <<>>
    /\ \E gt \in {"B300", "H200", "A100"}, gc \in {1, 2}, vol \in {"", "v-1"},
          sid \in {"", "s-1"} :
         \E ids \in {"id-1", "id-2"} \X {"id-1", "id-2"},
            secrets \in {"secret-1", "secret-2"} \X {"secret-1", "secret-2"} :
            fin = [i \in {1, 2} |->
                     Load(safe_load(dump(ShowData(ids[i], secrets[i], gt, gc, vol, sid),
                                         <<>>)))]
    /\ fout = <<>>

\* show_config is called in both
ShowConfig ==
    /\ fout = <<>>
    /\ fout' = [i \in {1, 2} |-> show_config(fin[i])]
    /\ UNCHANGED <<callVars, configVars, explicit, mon, req, fin>>

SpecShow == InitShow /\ [][ShowConfig]_vars

\* ------------------------------------------- the resolver, called on its own
\* the pairs asked: kinds of the table in either case, unknown kinds,
\* supported and unsupported counts
InitResolve ==
    /\ NoOperation
    /\ InitConfig
    /\ explicit = {}
    /\ mon = <<>>
    /\ req = <<>>
    /\ fin \in {"", "B300", "b300", "B200", "GB300", "gb300", "H200", "h200", "A100"}
                \X {0, 1, 2, 3, 4, 8, 16}
    /\ fout = <<>>

\* one more call of get_instance_type_from_gpu_type_and_count on the same pair
Resolve ==
    /\ Len(fout) < MaxCalls
    /\ fout' = Append(fout, get_instance_type_from_gpu_type_and_count(fin[1], fin[2]))
    /\ UNCHANGED <<callVars, configVars, explicit, mon, req, fin>>

SpecResolve == InitResolve /\ [][Resolve]_vars

\* ----------------------------- the client methods, called with falsy values
\* the arguments of the methods of the client that fall back on configured
\* defaults
DefaultsArgsOf(o) ==
    CASE o = "check"  -> CheckArgs
      [] o = "create" -> { [a EXCEPT !.image = i] :
                             a \in CreateArgs, i \in {"", "ubuntu-22.04"} }
      [] o = "wait"   -> WaitArgs

\* the parameters of a method for which `or` reads a configured default
\* (client.py 248-249, 353-356, 425-426)
DefaultedStr(o) ==
    CASE o = "check"  -> {"gpu_type"}
      [] o = "create" -> {"gpu_type", "location", "image"}
      [] o = "wait"   -> {}
DefaultedInt(o) ==
    CASE o = "check"  -> {"gpu_count"}
      [] o = "create" -> {"gpu_count"}
      [] o = "wait"   -> {"timeout", "poll_interval"}

\* the parameters that hold "" or 0: the caller left them out or passed
\* that very value
Falsy(o, a) ==
    {p \in DefaultedStr(o) : a[p] = ""} \cup {p \in DefaultedInt(o) : a[p] = 0}

InitDefaults ==
    /\ op \in {"check", "create", "wait"}
    /\ args \in DefaultsArgsOf(op)
    /\ InitConfig
    /\ explicit \in SUBSET Falsy(op, args)
    /\ InitIdle
    /\ InitFrames

NextDefaults ==
    \/ CheckEntry
    \/ ProbeLocation
    \/ CreateEntry
    \/ CreateKeys
    \/ CreateCall
    \/ WaitEntry
    \/ WaitRead
    \/ WaitSleep

SpecDefaults == InitDefaults /\ [][NextDefaults]_vars

\* ------------------------------------------- monitors running concurrently
\* monitor_spot_availability coroutines on one event loop, each with its
\* own locals; they share the client _get_client returns.  A coroutine runs
\* from one await to the next; the awaits are the is_available calls and the
\* interval sleeps
Procs == {1, 2}

\* the locals of one monitor that asks for a resolvable shape without
\* auto_deploy
MonitorFrame(mc) ==
    [pc |-> "start", max_checks |-> mc, check_num |-> 0, probeCalls |-> 0, idx |-> 0,
     answers |-> <<>>, outcome |-> ""]

InitMonitors ==
    /\ NoOperation
    /\ InitConfig
    /\ explicit = {}
    /\ req = <<>>
    /\ fin = <<>>
    /\ fout = <<>>
    /\ \E mcs \in [Procs -> 0..MaxChecks] :
         mon = [client |-> FALSE, frames |-> [p \in Procs |-> MonitorFrame(mcs[p])]]

\* mutant: check_num is one counter all the monitors advance
NextAttempt_sharedCounter(frames, p) ==
    [q \in Procs |->
        IF q = p
        THEN [frames[q] EXCEPT !.check_num = @ + 1, !.probeCalls = @ + 1, !.idx = 1,
                               !.answers = <<>>, !.pc = "probe"]
        ELSE [frames[q] EXCEPT !.check_num = @ + 1]]

\* the loop of monitor p takes its next check_num and calls
\* client.check_spot_availability, which starts its scan (server.py 204-205)
NextAttempt(frames, p) ==
    [frames EXCEPT ![p].check_num = @ + 1, ![p].probeCalls = @ + 1, ![p].idx = 1,
                   ![p].answers = <<>>, ![p].pc = "probe"]

\* the monitor returns its report
Finish(frames, p, result) ==
    [frames EXCEPT ![p].pc = "done", ![p].outcome = result]

\* lines 187-204 up to the first await: _get_client builds the client if no
\* one has yet
MonitorBegin(p) ==
    /\ mon.frames[p].pc = "start"
    /\ mon' = [client |-> TRUE,
               frames |-> IF InRange(1, mon.frames[p].max_checks)
                          THEN NextAttempt(mon.frames, p)
                          ELSE Finish(mon.frames, p, "Timed Out")]
    /\ UNCHANGED <<callVars, configVars, explicit, req, fin, fout>>

\* one is_available call of monitor p's scan returns, and the monitor runs
\* on to its next await or to its return (client.py 264-291, server.py 207-270)
MonitorProbe(p) ==
    /\ mon.frames[p].pc = "probe"
    /\ \E answer \in ProbeAnswers :
         LET f == mon.frames[p]
             heard == [mon.frames EXCEPT ![p].answers = Append(@, answer)]
         IN mon' = [mon EXCEPT !.frames =
              IF ProbeStep(answer) = "found"
              THEN Finish(heard, p, "SPOT AVAILABLE")
              ELSE IF MoreLocations(f.idx, LocationsToCheck(""))
              THEN [heard EXCEPT ![p].idx = @ + 1]
              ELSE IF ShouldSleep(f.check_num, f.max_checks)
              THEN [heard EXCEPT ![p].pc = "sleep"]
              ELSE Finish(heard, p, "Timed Out")]
    /\ UNCHANGED <<callVars, configVars, explicit, req, fin, fout>>

\* the interval sleep of monitor p is over (server.py 261-262)
MonitorWake(p) ==
    /\ mon.frames[p].pc = "sleep"
    /\ mon' = [mon EXCEPT !.frames = NextAttempt(mon.frames, p)]
    /\ UNCHANGED <<callVars, configVars, explicit, req, fin, fout>>

NextMonitors ==
    \/ \E p \in Procs : MonitorBegin(p)
    \/ \E p \in Procs : MonitorProbe(p)
    \/ \E p \in Procs : MonitorWake(p)

SpecMonitors == InitMonitors /\ [][NextMonitors]_vars

\* ----------------------------------------- requests sharing the executor
\* the tool requests the event loop serves concurrently.  Every provider
\* call goes through _run_sync, which hands it to the module's one
\* ThreadPoolExecutor and awaits its end; an interval sleep is an
\* asyncio.sleep, which holds no thread
Reqs == 1..MaxRequests

InitRequests ==
    /\ NoOperation
    /\ InitConfig
    /\ explicit = {}
    /\ mon = <<>>
    /\ fin = <<>>
    /\ fout = <<>>
    /\ req = [r \in Reqs |-> "idle"]

\* the provider calls a worker thread is running
Running == { r \in Reqs : req[r] = "running" }

\* a request is issued and reaches its first provider call:
\* loop.run_in_executor submits the call to the executor's queue
Submit(r) ==
    /\ req[r] = "idle"
    /\ req' = [req EXCEPT ![r] = "queued"]
    /\ UNCHANGED <<callVars, configVars, explicit, mon, fin, fout>>

\* a worker thread takes the call: the executor has at most max_workers
\* threads, each running one call at a time
StartCall(r) ==
    /\ req[r] = "queued"
    /\ Cardinality(Running) < max_workers
    /\ req' = [req EXCEPT ![r] = "running"]
    /\ UNCHANGED <<callVars, configVars, explicit, mon, fin, fout>>

\* the provider call returns or raises: its request goes on to an interval
\* sleep, to its next provider call, or ends
EndCall(r) ==
    /\ req[r] = "running"
    /\ \E then \in {"sleeping", "queued", "done"} : req' = [req EXCEPT ![r] = then]
    /\ UNCHANGED <<callVars, configVars, explicit, mon, fin, fout>>

\* the interval sleep is over and the next provider call is submitted
WakeUp(r) ==
    /\ req[r] = "sleeping"
    /\ req' = [req EXCEPT ![r] = "queued"]
    /\ UNCHANGED <<callVars, configVars, explicit, mon, fin, fout>>

NextRequests ==
    \/ \E r \in Reqs : Submit(r)
    \/ \E r \in Reqs : StartCall(r)
    \/ \E r \in Reqs : EndCall(r)
    \/ \E r \in Reqs : WakeUp(r)

SpecRequests == InitRequests /\ [][NextRequests]_vars

\* ================================================================== claims
Last(s) == s[Len(s)]
LinesTagged(tag) == {i \in DOMAIN results : results[i][1] = tag}

\* C1: a monitor with max_checks >= 1 that never finds capacity makes exactly
\* max_checks checks and exactly max_checks - 1 sleeps, each of check_interval,
\* never sleeps after the last check, and then reports Timed Out.
C1_ExhaustedAccounting ==
    (op = "monitor" /\ args.max_checks >= 1) =>
       /\ (pc = "m_sleep" => probeCalls < args.max_checks)
       /\ \A i \in DOMAIN sleeps : sleeps[i] = args.check_interval
       /\ (pc = "done" /\ ~availability.available) =>
             /\ probeCalls = args.max_checks
             /\ Len(sleeps) = args.max_checks - 1
             /\ Last(results) = <<"Timed Out", args.max_checks>>
             /\ outcome = "returned"

C1_Witness ==
    /\ op = "monitor" /\ pc = "done" /\ args.max_checks = 3
    /\ args.check_interval = 2
    /\ chk.instance_type # "" /\ Len(probed) = 3
    /\ ~availability.available
    /\ probeCalls = 3 /\ sleeps = <<2, 2>>
    /\ Last(results)[1] = "Timed Out"

\* C2: once a check of the monitor has found capacity, the monitor has
\* stopped polling: it reports exactly one SPOT AVAILABLE line carrying the
\* number k of that check, exactly k checks and k - 1 interval sleeps have
\* happened, and it is at no point of the polling loop any more (so no check
\* k+1.. and no further interval sleep happens).
C2_FoundStops ==
    (op = "monitor" /\ availability.available) =>
       /\ Cardinality(LinesTagged("SPOT AVAILABLE")) = 1
       /\ \A i \in LinesTagged("SPOT AVAILABLE") :
             /\ results[i][2] \in 1..args.max_checks
             /\ results[i][2] = probeCalls
             /\ Len(sleeps) = results[i][2] - 1
       /\ pc \notin {"m_start", "check_entry", "probe", "m_sleep"}
       /\ LinesTagged("Timed Out") = {}

C2_Witness ==
    /\ op = "monitor" /\ pc = "done" /\ args.max_checks = 3 /\ ~args.auto_deploy
    /\ availability.available /\ availability.location = "FIN-02"
    /\ probeCalls = 2 /\ Len(sleeps) = 1
    /\ \E i \in DOMAIN results : results[i] = <<"SPOT AVAILABLE", 2, "FIN-02", "1B300.30V">>

\* C3 (as claimed): for a shape the resolver cannot map, the monitor fails
\* fast: it makes at most one check, never sleeps, and ends with an error
\* result.
C3_FailFast ==
    (op = "monitor" /\ pc # "m_start"
        /\ get_instance_type_from_gpu_type_and_count(gpu_type, gpu_count) = "") =>
       /\ probeCalls <= 1
       /\ sleeps = <<>>
       /\ pc # "m_sleep"
       /\ (pc = "done" => Last(results)[1] = "Error")

\* the candidate list the caller gave: the pinned location, or the fixed set
GivenLocations ==
    IF chk.location # "" THEN <<chk.location>> ELSE LOCATION_CODES

\* the latest check_spot_availability call has returned to its caller
CheckReturned ==
    /\ op \in {"monitor", "check"}
    /\ probeCalls >= 1
    /\ pc \notin {"check_entry", "probe"}
    /\ outcome # "Exception"

AnswersOf(answer) == {i \in DOMAIN probed : probed[i][2] = answer}

\* C4: check_spot_availability probes the candidate locations in the given
\* order and stops at the first that reports capacity: the locations probed
\* are a prefix of the given list, only the last probe can have answered
\* "available", and then its location is returned with available = TRUE.
C4_ScanOrder ==
    (op \in {"monitor", "check"}) =>
       /\ Len(probed) <= Len(GivenLocations)
       /\ \A i \in DOMAIN probed : probed[i][1] = GivenLocations[i]
       /\ \A i \in AnswersOf("available") : i = Len(probed)
       /\ (pc = "probe" => AnswersOf("available") = {})
       /\ CheckReturned =>
             IF AnswersOf("available") # {}
             THEN /\ availability.available
                  /\ availability.location = Last(probed)[1]
             ELSE ~availability.available

C4_Witness ==
    /\ op = "check" /\ pc = "done"
    /\ probed = << <<"FIN-01", "unavailable">>, <<"FIN-02", "unavailable">>,
                   <<"FIN-03", "available">> >>
    /\ availability.available /\ availability.location = "FIN-03"

\* C5: an exception raised by is_available for one location never leaves
\* check_spot_availability: the scan goes on with the next location (or
\* returns normally after the last), and when the first location raises and
\* the second reports capacity the result is available = TRUE at the second.
C5_ErrorsSwallowed ==
    (op \in {"monitor", "check"}) =>
       /\ outcome # "Exception"
       /\ (op = "check" /\ pc = "done") => outcome = "returned"
       /\ (AnswersOf("error") # {} /\ pc # "check_entry") =>
             \/ pc = "probe" /\ chk.idx = Len(probed) + 1
             \/ CheckReturned
       /\ (CheckReturned /\ Len(probed) >= 2 /\ probed[1][2] = "error"
              /\ probed[2][2] = "available") =>
             /\ availability.available
             /\ availability.location = probed[2][1]

C5_Witness ==
    /\ op = "check" /\ pc = "done" /\ outcome = "returned"
    /\ probed = << <<"FIN-01", "error">>, <<"FIN-02", "available">> >>
    /\ availability.available /\ availability.location = "FIN-02"

\* the latest check tried every candidate and each raised or reported none
AllFailed ==
    /\ CheckReturned
    /\ probed # <<>>
    /\ \A i \in DOMAIN probed : probed[i][2] \in {"error", "unavailable"}

\* C6: when every candidate location raises or reports no capacity, the
\* check returns available = FALSE with an empty location and no error, and
\* the monitor treats the attempt as not found: with attempts left it is at
\* the interval sleep, still running, and its sleep leads to the next check;
\* with none left it reports Timed Out.
C6_AllFailState ==
    AllFailed =>
       /\ Len(probed) = Len(GivenLocations)
       /\ availability = AvailabilityResult(FALSE, "", chk.instance_type,
                                            chk.gpu_type, chk.gpu_count)
       /\ LinesTagged("Error") = {}
       /\ (op = "check") => (pc = "done" /\ outcome = "returned")
       /\ (op = "monitor") =>
             IF check_num < args.max_checks
             THEN pc = "m_sleep" /\ outcome = ""
             ELSE pc = "done" /\ outcome = "returned" /\ Last(results)[1] = "Timed Out"

C6_NextAttempt ==
    (pc = "m_sleep" /\ AllFailed) =>
       /\ pc' = "check_entry"
       /\ check_num' = check_num + 1
       /\ probeCalls' = probeCalls
       /\ outcome' = ""

C6_AllFailNotFound == [](C6_AllFailState) /\ [][C6_NextAttempt]_vars

C6_Witness ==
    /\ op = "monitor" /\ pc = "m_sleep" /\ check_num = 1 /\ args.max_checks = 3
    /\ probed = << <<"FIN-01", "error">>, <<"FIN-02", "unavailable">>,
                   <<"FIN-03", "error">> >>
    /\ availability.available = FALSE /\ availability.location = ""

\* wait_for_ready has been entered (its defaults are applied)
WaitEntered ==
    /\ pc # "w_entry"
    /\ \/ op = "wait"
       \/ op = "monitor" /\ LinesTagged("Instance Created") # {}
       \/ op = "deploy" /\ args.wait_for_ready /\ LinesTagged("Instance Created") # {}

\* wait_for_ready returned the instance
WaitSucceeded ==
    /\ WaitEntered /\ pc = "done" /\ outcome = "returned"
    /\ op \in {"monitor", "deploy"} => Last(results)[1] = "Instance Ready"

FailureStates == {"error", "failed", "terminated"}

\* the messages the exceptions of each type carry when wait_for_ready raises
WaitMessages(type) ==
    CASE type = "TimeoutError" -> {TimeoutMessage}
      [] type = "RuntimeError" -> FailureStates
      [] type = "Exception"    -> {TransportError}

\* wait_for_ready raised an exception of this type: it left the operation, or
\* a handler of the tool reported its message
WaitRaised(type) ==
    /\ WaitEntered /\ pc = "done"
    /\ IF outcome = "returned"
       THEN \E i \in LinesTagged("Error") \cup LinesTagged("Warning") :
               results[i][2] \in WaitMessages(type)
       ELSE outcome = type /\ raised \in WaitMessages(type)

\* C7: wait_for_ready returns the instance at the first read whose status is
\* "running": that read is the last one, n - 1 sleeps of poll_interval came
\* before it for n reads, and the wait succeeds only this way.
C7_ReadyOnFirstRunning ==
    /\ \A i \in DOMAIN reads : reads[i] = "running" =>
          /\ i = Len(reads)
          /\ WaitSucceeded
          /\ instance = [id |-> w.instance_id, status |-> "running"]
          /\ Len(waitSleeps) = i - 1
          /\ \A j \in DOMAIN waitSleeps : waitSleeps[j] = w.poll_interval
    /\ WaitSucceeded => (reads # <<>> /\ Last(reads) = "running")

C7_Witness ==
    /\ op = "wait" /\ args.timeout = 6 /\ args.poll_interval = 1
    /\ reads = <<"pending", "pending", "running">>
    /\ waitSleeps = <<1, 1>>
    /\ pc = "done" /\ outcome = "returned"

\* C8: a read whose status is error, failed or terminated ends wait_for_ready
\* at once with RuntimeError: it is the last read and no sleep follows it.
C8_FailureStopsWait ==
    \A i \in DOMAIN reads : reads[i] \in FailureStates =>
       /\ i = Len(reads)
       /\ Len(waitSleeps) = i - 1
       /\ pc = "done"
       /\ WaitRaised("RuntimeError")
       /\ op = "monitor" => Last(results) = Exc("RuntimeError", reads[i])

C8_Witness ==
    /\ op = "wait" /\ pc = "done" /\ outcome = "RuntimeError"
    /\ reads = <<"pending", "error">>
    /\ Len(waitSleeps) = 1

Ceil(t, p) == (t + p - 1) \div p

\* C9: with timeout > 0 and poll_interval > 0, a wait whose reads never show a
\* terminal state makes exactly ceil(timeout / poll_interval) reads, each
\* followed by one sleep of poll_interval, and then raises TimeoutError with
\* elapsed the smallest multiple of poll_interval that is >= timeout; no
\* further read is ever made.
C9_TimeoutBoundary ==
    WaitEntered =>
       LET t == w.timeout
           p == w.poll_interval
           n == Ceil(t, p)
           polls == \A i \in DOMAIN reads :
                       reads[i] \notin FailureStates \cup {"running", "<raised>"}
       IN /\ t > 0 /\ p > 0
          /\ Len(reads) <= n
          /\ elapsed = Len(waitSleeps) * p
          /\ \A j \in DOMAIN waitSleeps : waitSleeps[j] = p
          /\ WaitRaised("TimeoutError") =>
                /\ polls
                /\ Len(reads) = n /\ Len(waitSleeps) = n
                /\ elapsed = n * p /\ elapsed >= t /\ elapsed - p < t
          /\ (polls /\ pc = "done") => WaitRaised("TimeoutError")
          /\ (polls /\ pc = "w_sleep") => Len(waitSleeps) = Len(reads) - 1
          /\ (polls /\ pc = "w_read") =>
                (Len(waitSleeps) = Len(reads) /\ Len(reads) < n)

C9_Witness ==
    /\ op = "wait" /\ args.timeout = 5 /\ args.poll_interval = 2
    /\ pc = "done" /\ outcome = "TimeoutError"
    /\ Len(reads) = 3 /\ waitSleeps = <<2, 2, 2>> /\ elapsed = 6

\* C10: every status read falls in exactly one class: "running" ends the wait
\* with success, error / failed / terminated end it with RuntimeError, and any
\* other status (pending, unknown, a missing status, any other string) never
\* ends the wait: after it the wait sleeps and reads again, or times out.
C10_ThreeClasses ==
    /\ \A i \in DOMAIN reads :
          CASE reads[i] = "running" ->
                  /\ WaitSucceeded
                  /\ ~WaitRaised("RuntimeError") /\ ~WaitRaised("TimeoutError")
            [] reads[i] \in FailureStates ->
                  /\ WaitRaised("RuntimeError")
                  /\ ~WaitSucceeded /\ ~WaitRaised("TimeoutError")
            [] reads[i] = "<raised>" -> WaitRaised("Exception")
            [] OTHER ->
                  \/ i < Len(reads)
                  \/ pc \in {"w_sleep", "w_read"}
                  \/ /\ WaitRaised("TimeoutError")
                     /\ Len(waitSleeps) = Len(reads)
                     /\ ~WaitSucceeded /\ ~WaitRaised("RuntimeError")
    /\ \A i \in DOMAIN reads :
          i < Len(reads) => reads[i] \notin FailureStates \cup {"running", "<raised>"}

C10_Witness ==
    /\ op = "wait" /\ pc = "done" /\ outcome = "returned"
    /\ reads = <<"Running", "unknown", "provisioning", "running">>

\* the deploy operations: the monitor with auto_deploy, deploy_spot_instance
DeployOp == (op = "monitor" /\ args.auto_deploy) \/ op = "deploy"

\* the operation is past create_instance
PastCreate == pc \in {"w_entry", "w_read", "w_sleep", "done"}

\* the scan of the deploy operation found FIN-01 without capacity and then
\* FIN-02 with capacity
C11_Scenario ==
    /\ DeployOp
    /\ probed = << <<"FIN-01", "unavailable">>, <<"FIN-02", "available">> >>

\* C11: in a deploy operation whose scan of the candidates FIN-01, FIN-02, ..
\* finds no capacity at FIN-01 and capacity at FIN-02, FIN-01 is probed first,
\* the found result names FIN-02, at most one instances.create call is ever
\* made and its location is FIN-02, exactly one is made unless the key
\* listing before it failed, and the reported location is FIN-02.
C11_SecondLocationDeployed ==
    C11_Scenario =>
       /\ probed[1][1] = LOCATION_CODES[1] /\ probed[2][1] = LOCATION_CODES[2]
       /\ availability.available /\ availability.location = "FIN-02"
       /\ Len(createCalls) <= 1
       /\ \A i \in DOMAIN createCalls : createCalls[i].location = "FIN-02"
       /\ PastCreate =>
             \/ Len(createCalls) = 1
             \/ /\ sshCalls = 1 /\ pc = "done"
                /\ IF op = "monitor"
                   THEN Last(results)[1] = "Error"
                        /\ Last(results)[2] \in {NoKeysMessage, TransportError}
                   ELSE outcome \in {"ValueError", "Exception"}
       /\ op = "monitor" =>
             \E i \in LinesTagged("SPOT AVAILABLE") : results[i][3] = "FIN-02"
       /\ op = "deploy" =>
             \A i \in LinesTagged("Instance Created") : results[i][3] = "FIN-02"

C11_Witness ==
    /\ op = "monitor" /\ args.auto_deploy /\ pc = "done"
    /\ probed = << <<"FIN-01", "unavailable">>, <<"FIN-02", "available">> >>
    /\ Len(createCalls) = 1 /\ createCalls[1].location = "FIN-02"
    /\ \E i \in LinesTagged("SPOT AVAILABLE") : results[i][3] = "FIN-02"
    /\ Last(results)[1] = "Instance Ready"

\* the same scenario through deploy_spot_instance
C11_DeployReached ==
    /\ op = "deploy" /\ pc = "done" /\ outcome = "returned"
    /\ probed = << <<"FIN-01", "unavailable">>, <<"FIN-02", "available">> >>
    /\ Len(createCalls) = 1 /\ createCalls[1].location = "FIN-02"
    /\ Last(results)[1] = "Instance Ready"

\* the ids the created-instance lines of the result report
CreatedIds == {results[i][2] : i \in LinesTagged("Instance Created")}

\* C12: in the deploy operations the provider calls come in the order probe,
\* create, ready-wait: create_instance is entered and instances.create is
\* called only after the last probe of the run answered available, and with
\* that probe's location; get_instance polling happens only after
\* instances.create returned an instance, and only for the id it returned.
C12_ProbeCreateWait ==
    DeployOp =>
       /\ (Phase(pc) = "create" \/ createCalls # <<>>) =>
             /\ probed # <<>> /\ Last(probed)[2] = "available"
             /\ availability.available
             /\ availability.location = Last(probed)[1]
             /\ \A i \in DOMAIN probed : i < Len(probed) => probed[i][2] # "available"
       /\ pc \in {"c_keys", "c_create"} => crt.location = availability.location
       /\ Len(createCalls) <= 1
       /\ \A i \in DOMAIN createCalls :
             createCalls[i].location = availability.location
       /\ (Phase(pc) = "wait" \/ reads # <<>>) =>
             /\ Len(createCalls) = 1
             /\ CreatedIds = {w.instance_id}
             /\ instance.id = w.instance_id
       /\ Phase(pc) \in {"other"} /\ pc # "done" => createCalls = <<>> /\ reads = <<>>
       /\ Phase(pc) = "create" => reads = <<>>

C12_Witness ==
    /\ op = "deploy" /\ pc = "done" /\ outcome = "returned"
    /\ probed = << <<"FIN-01", "error">>, <<"FIN-02", "unavailable">>,
                   <<"FIN-03", "available">> >>
    /\ Len(createCalls) = 1 /\ createCalls[1].location = "FIN-03"
    /\ CreatedIds = {"i-2"} /\ w.instance_id = "i-2"
    /\ reads = <<"pending", "running">>

\* the tag the caller sees: the type of the exception that left the
\* operation, else the tag of the last line of the returned result
ResultTag == IF outcome = "returned" THEN Last(results)[1] ELSE outcome

\* the tag an exception of this type is seen under when it leaves this
\* phase of operation o
TagFor(o, phase, type) ==
    IF Handle(o, phase, type) = "" THEN type ELSE Handle(o, phase, type)

\* a deploy operation ended: capacity was found but no instance was created
CreateFailed ==
    /\ DeployOp /\ pc = "done"
    /\ availability.available /\ CreatedIds = {}

\* a deploy operation ended without having found capacity
NoCapacity == DeployOp /\ pc = "done" /\ ~availability.available

\* the tags of the no-capacity results (server.py 265, 313)
NoCapacityTags == {TimedOutLines[1][1], NotAvailableLines[1][1]}

\* C13: a deploy operation whose probe found capacity and whose create
\* failed ends with a result whose tag is never a tag of the no-capacity
\* results: the monitor reports an Error line after its SPOT AVAILABLE line,
\* not Timed Out; deploy_spot_instance lets the exception out, and does not
\* return Deployment Failed. The no-capacity results carry only their tags.
C13_RaceLostNotExhausted ==
    /\ CreateFailed =>
          /\ ResultTag \notin NoCapacityTags
          /\ ResultTag \in {TagFor(op, "create", t) : t \in {"ValueError", "Exception"}}
          /\ op = "monitor" =>
                LinesTagged("SPOT AVAILABLE") # {} /\ LinesTagged("Timed Out") = {}
    /\ NoCapacity =>
          /\ ResultTag \in NoCapacityTags
          /\ outcome = "returned"
          /\ LinesTagged("Error") = {} /\ createCalls = <<>>

C13_Witness ==
    /\ op = "monitor" /\ args.auto_deploy /\ pc = "done"
    /\ availability.available /\ availability.location = "FIN-01"
    /\ Len(createCalls) = 1 /\ CreatedIds = {}
    /\ Last(results) = <<"Error", TransportError>>

\* the same through deploy_spot_instance: the exception of the create call
C13_DeployReached ==
    /\ op = "deploy" /\ pc = "done" /\ availability.available
    /\ Len(createCalls) = 1 /\ CreatedIds = {}
    /\ outcome = "Exception" /\ raised = TransportError

\* what the caller of the operation receives: the returned lines, or the
\* type and text of the exception that left the operation
VisibleResult ==
    IF outcome = "returned" THEN <<"returned", results>>
    ELSE <<"raised", outcome, raised>>

\* a deploy operation ended: the instance was created and the ready-wait ended
\* by its timeout or by a terminal failure state of the instance
NeverReady ==
    /\ DeployOp /\ pc = "done" /\ CreatedIds # {}
    /\ WaitRaised("TimeoutError") \/ WaitRaised("RuntimeError")

\* a deploy operation succeeded
DeploySucceeded ==
    /\ DeployOp /\ pc = "done" /\ outcome = "returned"
    /\ Last(results)[1] \in {"Instance Ready", "Instance Created"}

\* what the caller of operation o receives when a provider call raises in a
\* place where no handler of o catches it: the bare exception of the
\* provider, as for the get_by_id read of the ready-wait of
\* deploy_spot_instance
UnhandledResults(o) ==
    IF Handle(o, "wait", "Exception") = ""
    THEN {<<"raised", "Exception", TransportError>>}
    ELSE {}

\* C14: the results of found-but-create-failed and of created-but-never-ready
\* can be told from each other, from success and from a generic error: the
\* first has no created-instance line, the second has one and is a returned
\* result, success ends with the created or ready lines, and neither
\* partial failure is the bare provider exception of an unhandled call.
C14_PartialFailuresDistinct ==
    /\ CreateFailed =>
          /\ ~NeverReady /\ ~DeploySucceeded
          /\ VisibleResult \notin UnhandledResults(op)
    /\ NeverReady =>
          /\ ~DeploySucceeded
          /\ outcome = "returned"
          /\ VisibleResult \notin UnhandledResults(op)

\* deploy_spot_instance created the instance and the get_by_id read of the
\* ready-wait raised: the caller receives the same bare exception as when
\* the create call raised
C14_GenericReached ==
    /\ op = "deploy" /\ pc = "done" /\ CreatedIds # {}
    /\ reads = <<"<raised>">>
    /\ VisibleResult = <<"raised", "Exception", TransportError>>

\* the tag a failure is seen under: the type of the exception that left the
\* operation, else the tag of the line that carries the exception's message
FailureTag ==
    IF outcome # "returned" THEN outcome
    ELSE LET lines == LinesTagged("Error") \cup LinesTagged("Warning")
         IN IF lines = {} THEN ""
            ELSE results[CHOOSE i \in lines : \A j \in lines : j <= i][1]

\* C15: at every operation that performs the ready-wait (wait_for_ready,
\* deploy_spot_instance, the monitor with auto_deploy) a timeout of the wait
\* and a terminal failure state of the instance are seen under two different
\* tags, and neither under the tag of any other exception of the wait.
C15_TimeoutAndErrorStateTyped ==
    LET timeoutTag == TagFor(op, "wait", "TimeoutError")
        errorTag   == TagFor(op, "wait", "RuntimeError")
        otherTag   == TagFor(op, "wait", "Exception")
    IN /\ WaitRaised("TimeoutError") =>
             FailureTag = timeoutTag /\ FailureTag \notin {errorTag, otherTag}
       /\ WaitRaised("RuntimeError") =>
             FailureTag = errorTag /\ FailureTag \notin {timeoutTag, otherTag}

\* the monitor reported a timeout of the ready-wait under its Error tag
C15_MonitorTimeoutReached ==
    /\ op = "monitor" /\ pc = "done" /\ CreatedIds # {}
    /\ Last(results) = <<"Error", TimeoutMessage>>

\* deploy_spot_instance reported a timeout under Warning
C15_DeployTimeoutReached ==
    /\ op = "deploy" /\ pc = "done" /\ WaitRaised("TimeoutError")
    /\ FailureTag = "Warning"

\* C16: when ssh_keys.get returns no key, create_instance fails with the
\* ValueError "No SSH keys found" (the NoCredential failure), no
\* instances.create call is made, the key listing is not repeated and the
\* calling operation ends: a direct caller and deploy_spot_instance receive
\* the exception, the monitor reports it and returns without polling again.
C16_NoCredential ==
    ssh_keys = "none" =>
       /\ pc = "done"
       /\ createCalls = <<>> /\ sshCalls = 1 /\ reads = <<>>
       /\ IF op = "monitor"
          THEN /\ outcome = "returned"
               /\ Last(results) = <<"Error", NoKeysMessage>>
               /\ probeCalls = check_num /\ Len(sleeps) = check_num - 1
          ELSE outcome = "ValueError" /\ raised = NoKeysMessage

C16_Witness ==
    /\ op = "create" /\ pc = "done" /\ ssh_keys = "none"
    /\ crt.instance_type # "" /\ sshCalls = 1
    /\ outcome = "ValueError" /\ raised = NoKeysMessage /\ createCalls = <<>>

\* the SKU the resolver gives for the shape of the operation's arguments,
\* the configured defaults standing in for omitted ones
ResolvedArgs ==
    get_instance_type_from_gpu_type_and_count(
        OrStr(args.gpu_type, config.defaults.gpu_type),
        OrInt(args.gpu_count, config.defaults.gpu_count))

\* C17: create_instance called with a shape the resolver cannot map fails at
\* once with the ValueError "Unknown instance type" (UnknownResourceShape):
\* neither ssh_keys.get nor instances.create nor any other provider call is
\* made. In every operation the key listing and the create call happen only
\* with a resolved instance type.
C17_UnknownShapeFailsFirst ==
    /\ (op = "create" /\ ResolvedArgs = "") =>
          /\ sshCalls = 0 /\ ssh_keys = "" /\ createCalls = <<>>
          /\ probed = <<>> /\ reads = <<>> /\ actionCalls = <<>>
          /\ pc \in {"c_entry", "done"}
          /\ pc = "done" => (outcome = "ValueError" /\ raised = UnknownTypeMessage)
    /\ (sshCalls > 0 \/ createCalls # <<>>) => crt.instance_type # ""
    /\ \A i \in DOMAIN createCalls : createCalls[i].instance_type # ""

C17_Witness ==
    /\ op = "create" /\ args.gpu_type = "h200" /\ args.gpu_count = 2
    /\ pc = "done" /\ outcome = "ValueError" /\ raised = UnknownTypeMessage
    /\ sshCalls = 0 /\ createCalls = <<>>

\* a check_spot_availability call is past its resolver step
CheckResolved == probeCalls > 0 /\ pc # "check_entry"

\* C18: check_spot_availability consults the resolver before any provider
\* call: when the shape (after defaults) has no instance type, the call makes
\* no is_available call for any location and returns available = False with
\* empty location and empty instance type; every is_available call that is
\* made belongs to a check with a resolved instance type.
C18_ResolverBeforeProbe ==
    /\ (CheckResolved /\ chk.instance_type = "") =>
          /\ probed = <<>> /\ pc # "probe"
          /\ availability = AvailabilityResult(FALSE, "", "", chk.gpu_type,
                                               chk.gpu_count)
          /\ get_instance_type_from_gpu_type_and_count(chk.gpu_type, chk.gpu_count) = ""
    /\ (op = "check" /\ ResolvedArgs = "" /\ pc # "check_entry") =>
          /\ pc = "done" /\ outcome = "returned"
          /\ chk.instance_type = "" /\ probed = <<>>
          /\ ~availability.available
          /\ availability.location = "" /\ availability.instance_type = ""
    /\ (pc = "probe" \/ (CheckResolved /\ probed # <<>>)) => chk.instance_type # ""

C18_Witness ==
    /\ op = "check" /\ args.gpu_type = "A100" /\ args.gpu_count = 1
    /\ args.location = "FIN-02"
    /\ pc = "done" /\ outcome = "returned" /\ probeCalls = 1 /\ probed = <<>>
    /\ availability = AvailabilityResult(FALSE, "", "", "A100", 1)

\* the calls that change something at the provider
ProviderWrites == <<createCalls, actionCalls>>

\* every provider call the model records
ProviderCalls == <<createCalls, actionCalls, sshCalls, probed, reads>>

\* C19 (state part): delete_instance called with confirm = False ends in one
\* step, returning its Safety Check text.
C19_UnconfirmedState ==
    (op = "delete" /\ ~args.confirm) =>
       /\ pc \in {"del_start", "done"}
       /\ pc = "done" =>
             (outcome = "returned" /\ results = <<<<"Safety Check", args.instance_id>>>>)

\* C19 (step part): a step that sends a delete action to the provider is a
\* step of delete_instance called with confirm = True, for the instance it
\* was given; no step of delete_instance called with confirm = False makes
\* any provider call.
C19_DeleteStep ==
    /\ actionCalls' # actionCalls =>
          /\ Len(actionCalls') = Len(actionCalls) + 1
          /\ Last(actionCalls')[2] = "delete" =>
                /\ op = "delete" /\ args.confirm /\ pc = "del_start"
                /\ Last(actionCalls')[1] = args.instance_id
          /\ op \in {"shutdown", "start"} => Last(actionCalls')[2] # "delete"
    /\ (op = "delete" /\ ~args.confirm) => UNCHANGED ProviderWrites
    /\ (op = "delete" /\ ~args.confirm /\ pc # "done") => UNCHANGED ProviderCalls

\* C19: across any sequence of tool invocations a delete action reaches the
\* provider only through delete_instance called with confirm = True, and
\* delete_instance called with confirm = False makes no provider call.
C19_DeleteOnlyConfirmed == [](C19_UnconfirmedState) /\ [][C19_DeleteStep]_vars

C19_Witness ==
    /\ invocation = 2 /\ op = "delete" /\ args.confirm /\ pc = "done"
    /\ args.instance_id = "i-1"
    /\ Len(createCalls) = 1
    /\ actionCalls = << <<"i-1", "delete">> >>
    /\ results = <<<<"Action Initiated", "delete", "i-1">>>>

\* an unconfirmed delete_instance ended after an earlier invocation's action
C19_UnconfirmedReached ==
    /\ invocation = 2 /\ op = "delete" /\ ~args.confirm /\ pc = "done"
    /\ actionCalls = << <<"i-1", "shutdown">> >>

\* a hostname that create_instance or deploy_spot_instance generated
Generated(h) == Len(h) > 1

\* C20: the hostnames generated for omitted hostname arguments never
\* collide: no two instances.create calls of the process whose hostnames
\* were generated carry the same hostname.
C20_GeneratedHostnamesDistinct ==
    \A i, j \in DOMAIN createCalls :
       (i < j /\ Generated(createCalls[i].hostname)
              /\ Generated(createCalls[j].hostname)) =>
          createCalls[i].hostname # createCalls[j].hostname

\* two deploy_spot_instance calls within the same second
C20_SameSecondReached ==
    /\ Len(createCalls) = 2 /\ op = "deploy"
    /\ createCalls[1].hostname = <<"spot-gpu", "ts", 0>>
    /\ createCalls[2].hostname = <<"spot-gpu", "ts", 0>>

\* ------------------------------------------------------------------- C21
\* the fixed table of client.py 42-62, one triple per entry
SkuTable ==
    { <<"B300", 1, "1B300.30V">>, <<"B300", 2, "2B300.60V">>,
      <<"B300", 4, "4B300.120V">>, <<"B300", 8, "8B300.240V">>,
      <<"B200", 1, "1B200.30V">>, <<"B200", 2, "2B200.60V">>,
      <<"B200", 4, "4B200.120V">>, <<"B200", 8, "8B200.240V">>,
      <<"GB300", 1, "1GB300.36V">>, <<"GB300", 2, "2GB300.72V">>,
      <<"GB300", 4, "4GB300.144V">>, <<"H200", 1, "1H200.141S.44V">> }

\* the entries of the table for the pair asked, the kind being read without
\* regard to case
EntriesFor(pair) == { e \in SkuTable : e[1] = Upper(pair[1]) /\ e[2] = pair[2] }

\* C21: the resolver is total and deterministic: every call on a pair of the
\* table returns that pair's SKU, every call on a pair outside the table
\* returns the empty string, whether the kind is unknown or the count is
\* unsupported for a known kind
C21_ResolverTable ==
    \A i \in DOMAIN fout :
        /\ \A e \in EntriesFor(fin) : fout[i] = e[3]
        /\ EntriesFor(fin) = {} => fout[i] = ""

\* an unsupported count of a known kind has been resolved twice, to the
\* empty string both times
C21_Witness ==
    /\ Len(fout) = MaxCalls
    /\ fin = <<"H200", 2>>
    /\ fout[1] = "" /\ fout[2] = ""

\* ------------------------------------------------------------------- C22
\* the caller passed the parameter: with a value other than "" or 0, or with
\* that value explicitly
SuppliedStr(p) == p \in explicit \/ args[p] # ""
SuppliedInt(p) == p \in explicit \/ args[p] # 0

\* the method has applied its `or` defaults
DefaultsApplied ==
    \/ op = "check" /\ pc # "check_entry"
    \/ op = "create" /\ pc \in {"c_keys", "c_call"}
    \/ op = "wait" /\ pc # "w_entry"

\* the value the method works with
Used(p) ==
    CASE op = "check"  -> chk[p]
      [] op = "create" -> crt[p]
      [] op = "wait"   -> w[p]

\* C22: a value the caller supplies to check_spot_availability,
\* create_instance or wait_for_ready is the value the method uses, the
\* configured default standing in only for a parameter the caller omitted
C22_SuppliedValueUsed ==
    DefaultsApplied =>
        /\ \A p \in DefaultedStr(op) : SuppliedStr(p) => Used(p) = args[p]
        /\ \A p \in DefaultedInt(op) : SuppliedInt(p) => Used(p) = args[p]

\* wait_for_ready was passed timeout=0 and waits with the configured timeout
C22_ZeroTimeoutReplaced ==
    /\ op = "wait"
    /\ "timeout" \in explicit
    /\ pc = "w_read"
    /\ w.timeout = client_config.deployment.ready_timeout

\* every supplied value other than "" and 0 is the value used
C22_TruthyValueUsed ==
    DefaultsApplied =>
        /\ \A p \in DefaultedStr(op) : args[p] # "" => Used(p) = args[p]
        /\ \A p \in DefaultedInt(op) : args[p] # 0 => Used(p) = args[p]

\* ------------------------------------------------------------------- C23
Range(q) == { q[i] : i \in DOMAIN q }

\* each monitor's calls of the prober are bounded by its own max_checks and
\* counted by its own check_num, and its report follows from the answers its
\* own scan got
C23_OwnLoop ==
    \A p \in Procs :
        LET f == mon.frames[p] IN
        /\ f.probeCalls <= f.max_checks
        /\ f.check_num = f.probeCalls
        /\ f.pc = "done" => f.outcome \in {"SPOT AVAILABLE", "Timed Out"}
        /\ f.outcome = "SPOT AVAILABLE" =>
              f.answers # <<>> /\ Last(f.answers) = "available"
        /\ f.outcome = "Timed Out" =>
              f.probeCalls = f.max_checks /\ "available" \notin Range(f.answers)

\* a step changes the locals of one monitor only, and moves its attempt
\* counter only together with a prober call of its own
C23_OwnStep ==
    \A p \in Procs :
        mon'.frames[p] # mon.frames[p] =>
            /\ \A q \in Procs \ {p} : mon'.frames[q] = mon.frames[q]
            /\ mon'.frames[p].check_num # mon.frames[p].check_num =>
                  /\ mon'.frames[p].check_num = mon.frames[p].check_num + 1
                  /\ mon'.frames[p].probeCalls = mon.frames[p].probeCalls + 1

\* C23: monitors running concurrently each run an independent loop under
\* every interleaving: a monitor probes at most its own max_checks times,
\* its attempt counter advances only with its own probes, and its outcome
\* follows from the answers to its own probes, whatever the others do
C23_MonitorsIndependent == []C23_OwnLoop /\ [][C23_OwnStep]_vars

\* one monitor has found capacity at its first check while the other has
\* timed out after two
C23_Witness ==
    /\ mon.frames[1].outcome = "SPOT AVAILABLE" /\ mon.frames[1].probeCalls = 1
    /\ mon.frames[2].outcome = "Timed Out" /\ mon.frames[2].probeCalls = 2

\* ------------------------------------------------------------------- C24
\* C24: a request suspended in an interval sleep or in a provider call never
\* blocks another request: whatever number of requests are suspended, a
\* provider call that has been submitted can start without any of them
\* finishing first
C24_NoCallWaitsForOthers ==
    \A r \in Reqs : req[r] = "queued" => ENABLED StartCall(r)

\* requests suspended in interval sleeps alone leave every submitted call
\* free to start
C24_SleepersNeverBlock ==
    \A r \in Reqs :
        (req[r] = "queued" /\ Running = {}) => ENABLED StartCall(r)

\* a fifth call is queued behind four calls that have not returned
C24_FifthCallQueued ==
    /\ Cardinality(Running) = max_workers
    /\ \E r \in Reqs : req[r] = "queued"

\* ------------------------------------------------------------------- C25
\* the calls made to the provider so far
CallsMade == <<probeCalls, probed, sshCalls, createCalls, reads>>

\* a sleep is left without having run its time
SleepAborted ==
    /\ pc \in {"m_sleep", "w_sleep"}
    /\ pc' # pc
    /\ UNCHANGED <<sleeps, waitSleeps>>

Cancelled == outcome = "CancelledError"

\* the abort is observed at the sleep: the operation ends there with the
\* cancellation, having made no call and added no report line
C25_AbortAtSleep ==
    SleepAborted => Cancelled' /\ pc' = "done" /\ UNCHANGED <<CallsMade, results>>

\* C25: the interval sleep is a cancellation point of the monitor and of
\* the ready-wait: cancelled while sleeping, either ends at that sleep with
\* the cancellation and makes no further probe, read or create call
C25_SleepIsCancellationPoint ==
    /\ [][C25_AbortAtSleep]_vars
    /\ [](Cancelled => pc = "done")
    /\ [][Cancelled => UNCHANGED CallsMade]_vars

\* a monitor that deployed is cancelled in the sleep of its ready-wait,
\* inside its `except Exception` block
C25_Witness ==
    /\ op = "monitor"
    /\ Cancelled
    /\ Len(createCalls) = 1
    /\ Len(reads) = 2

\* ------------------------------------------------------------------- C26
\* C26: no remote call is retried on its own: one scan of the prober asks
\* about each candidate location at most once, one iteration of the
\* ready-wait makes exactly one read, a create makes at most one
\* instances.create call; a call is repeated only by the next iteration of
\* its loop, one sleep of the fixed interval later
C26_NoRetryOfSingleCalls ==
    /\ \A i, j \in DOMAIN probed : i # j => probed[i][1] # probed[j][1]
    /\ Len(createCalls) <= 1
    /\ pc = "w_read" => Len(reads) = Len(waitSleeps)
    /\ pc = "w_sleep" => Len(reads) = Len(waitSleeps) + 1
    /\ Len(reads) <= Len(waitSleeps) + 1
    /\ probeCalls <= Len(sleeps) + 1
    /\ \A i \in DOMAIN sleeps : sleeps[i] = args.check_interval
    /\ \A i \in DOMAIN waitSleeps : waitSleeps[i] = w.poll_interval

\* a monitor found capacity at its second attempt, one sleep after the first
\* full scan, created the instance and is reading its state for the second
\* time, one sleep after the first read
C26_Witness ==
    /\ op = "monitor"
    /\ probeCalls = 2 /\ Len(sleeps) = 1
    /\ Len(createCalls) = 1
    /\ Len(reads) = 2 /\ Len(waitSleeps) = 1

\* ------------------------------------------------------------------- C27
\* the operation has ended with one outcome its caller can branch on: the
\* tool returned its report, or wait_for_ready raised one of its two typed
\* failures
TaggedOutcome ==
    \/ outcome = "returned"
    \/ op = "wait" /\ outcome \in {"TimeoutError", "RuntimeError"}

\* C27: every invocation of the monitor, of deploy_spot_instance and of
\* wait_for_ready that ends, ends with exactly one outcome, a success or a
\* tagged failure: no error raised inside escapes untagged
C27_OneTaggedOutcome ==
    (op \in {"monitor", "deploy", "wait"} /\ pc = "done") => TaggedOutcome

\* the monitor, for its part, always returns its report
C27_MonitorReturns ==
    (op = "monitor" /\ pc = "done") => outcome = "returned"

\* deploy_spot_instance found capacity and the ValueError of a create
\* without SSH key left the tool
C27_CreateErrorEscapes ==
    /\ op = "deploy"
    /\ pc = "done"
    /\ outcome = "ValueError"
    /\ raised = NoKeysMessage

\* ------------------------------------------------------------------- C28
\* C28: once update_config_file({"defaults": {"script_id": X}}) has
\* returned, get_config().defaults.script_id is X, whatever X is and
\* whatever calls of get_config, reload_config and update_config_file came
\* before
C28_UpdateVisible ==
    (fin.call = "update_config_file" /\ fin.script_id # <<>> /\ fout = <<"returned">>)
        => get_config_value.defaults.script_id = fin.script_id[1]

\* the default script was set to s-1 in a file whose defaults section an
\* earlier update had changed
C28_Witness ==
    /\ fin = Called("update_config_file", <<"s-1">>)
    /\ fout = <<"returned">>
    /\ <<<<"defaults", "gpu_type">>, Scalar("H200")>> \in config_file
    /\ config.deployment.ready_timeout = 3

\* ------------------------------------------------------------------- C29
\* an instances.create call is made for a deploying tool whose caller
\* omitted script_id, a tool having set the default script before
DefaultScriptCreate ==
    /\ Len(createCalls') = Len(createCalls) + 1
    /\ op \in {"deploy", "monitor"}
    /\ args.script_id = ""
    /\ fin.script_id # <<>>

\* C29: once set_default_script(S) or create_and_set_default_script has
\* returned with S as the default, every deploy_spot_instance call and
\* every auto-deploy of the monitor started afterwards without script_id
\* passes S as startup_script_id to instances.create, until a tool sets
\* another default
C29_DefaultScriptPassed ==
    [][DefaultScriptCreate =>
         Last(createCalls').startup_script_id = fin.script_id[1]]_vars

\* the process started with s-1 as default script, set_default_script made
\* it s-2, and the deploy_spot_instance that followed passed s-2
C29_Witness ==
    /\ op = "deploy"
    /\ args.script_id = ""
    /\ fin = Called("set_default_script", <<"s-2">>)
    /\ client_config.defaults.script_id = "s-1"
    /\ createCalls # <<>>
    /\ Last(createCalls).startup_script_id = "s-2"

\* ------------------------------------------------------------------- C30
\* C30: show_config reveals no secret: two configurations that differ in
\* client_id and client_secret only produce the same output
C30_OutputIndependentOfSecrets ==
    fout # <<>> => fout[1] = fout[2]

\* show_config has run on two configurations with different client ids and
\* different client secrets
C30_Witness ==
    /\ fout # <<>>
    /\ fin[1].client_id # fin[2].client_id
    /\ fin[1].client_secret # fin[2].client_secret
    /\ fin[1].defaults.script_id = "s-1"

\* C31: when check_spot_availability is given a location and the shape
\* resolves, is_available is called for that location only, once, and the
\* result names that location (available) or no location (not available);
\* with no location given the scan walks FIN-01, FIN-02, FIN-03 in this
\* order, all three of them when none has capacity.
C31_PinnedLocationOnly ==
    (op = "check" /\ chk.instance_type # "") =>
       IF args.location # ""
       THEN /\ Len(probed) <= 1
            /\ \A i \in DOMAIN probed : probed[i][1] = args.location
            /\ pc = "done" =>
                  /\ Len(probed) = 1
                  /\ availability.available = (probed[1][2] = "available")
                  /\ availability.location =
                        IF availability.available THEN args.location ELSE ""
       ELSE /\ Len(probed) <= 3
            /\ \A i \in DOMAIN probed :
                  probed[i][1] = <<"FIN-01", "FIN-02", "FIN-03">>[i]
            /\ (pc = "done" /\ ~availability.available) => Len(probed) = 3

\* a pinned location without capacity: one probe, an empty location
C31_Witness ==
    /\ op = "check" /\ pc = "done"
    /\ args.location = "FIN-02"
    /\ probed = << <<"FIN-02", "unavailable">> >>
    /\ ~availability.available /\ availability.location = ""

\* the lines of the monitor's report that carry the number of a check: the
\* found line "(Check #n)" and, read generously, "after n checks"
AttemptLines ==
    { k \in DOMAIN results : results[k][1] \in {"SPOT AVAILABLE", "Timed Out"} }

\* C32: every attempt of a monitor run is visible to the caller: the report
\* the monitor returns carries, for each check i it made, a line with i.
C32_EveryAttemptReported ==
    (op = "monitor" /\ pc = "done" /\ outcome = "returned") =>
       \A i \in 1..probeCalls : \E k \in AttemptLines : results[k][2] = i

\* what the code does instead: a failed check leaves one record in the
\* server's log and no line in the report, the check that finds a spot leaves
\* a line in the report and no record in the log
C32_FailedAttemptsOnlyLogged ==
    (op = "monitor") =>
       /\ \A i \in DOMAIN logged : logged[i] = <<"Check", i>>
       /\ \A k \in DOMAIN results :
             results[k][1] = "SPOT AVAILABLE" =>
                /\ results[k][2] = probeCalls
                /\ Len(logged) = probeCalls - 1
       /\ (pc = "done" /\ Last(results)[1] = "Timed Out") =>
             Len(logged) = probeCalls

\* a monitor that gave up after two checks
C32_TimedOutReached ==
    /\ op = "monitor" /\ pc = "done" /\ outcome = "returned"
    /\ probeCalls = 2 /\ logged = << <<"Check", 1>>, <<"Check", 2>> >>
    /\ AttemptLines # {} /\ \A k \in AttemptLines : results[k][2] = 2

\* the ids the ready lines of the result report
ReadyIds == {results[i][2] : i \in LinesTagged("Instance Ready")}

C33_State ==
    /\ op = "wait" => w.instance_id = args.instance_id
    /\ WaitSucceeded =>
          /\ instance = [id |-> w.instance_id, status |-> "running"]
          /\ Last(reads) = instance.status
    /\ DeployOp => (CreatedIds \cup ReadyIds) \subseteq {instance.id}

C33_Step ==
    /\ w.instance_id # "" => w'.instance_id = w.instance_id
    /\ reads' # reads /\ Last(reads') # "<raised>" =>
          /\ instance'.id = w.instance_id
          /\ instance'.status = Last(reads')
    /\ (DeployOp /\ pc = "c_create" /\ instance' # instance) =>
          /\ LinesTagged("Instance Created")' # {}
          /\ CreatedIds' = {instance'.id}
          /\ pc' = "w_entry" => w'.instance_id = instance'.id

\* C33: no instance field is patched and no instance id changes: the
\* Instance a successful wait_for_ready returns is the one built from its last
\* get_instance read, with status running and the id the wait was called
\* with; that id stays the same from read to read; and the id
\* deploy_spot_instance and the monitor report, and wait for, is the id of the
\* instance instances.create returned.
C33_NoLocalPatching == []C33_State /\ [][C33_Step]_vars

\* a deploy that waited through two reads and reports the created id
C33_Witness ==
    /\ op = "deploy" /\ WaitSucceeded
    /\ reads = <<"provisioning", "running">>
    /\ CreatedIds = {"i-1"} /\ ReadyIds = {"i-1"}
    /\ instance = [id |-> "i-1", status |-> "running"]

\* instances.create returned an instance in this deploy operation
CreateSucceeded == DeployOp /\ instance.id # ""

\* C34: once instances.create has returned an instance in a deploy
\* operation, the operation ends by returning a result that names the id of
\* that instance, whatever the ready-wait does.
C34_CreatedInstanceReported ==
    (CreateSucceeded /\ pc = "done") =>
       /\ outcome = "returned"
       /\ CreatedIds = {instance.id}

\* the monitor does keep the id: its handler catches what the wait raises
C34_MonitorReportsCreated ==
    (CreateSucceeded /\ op = "monitor") => CreatedIds = {instance.id}

\* deploy_spot_instance created i-1 and the first read of the wait raised:
\* the exception is all the caller gets
C34_CreatedInstanceLost ==
    /\ op = "deploy" /\ pc = "done"
    /\ Len(createCalls) = 1 /\ instance.id = "i-1"
    /\ reads = <<"<raised>">>
    /\ outcome = "Exception"

\* C35: a monitor run with auto_deploy=False calls the provider for
\* availability probes only: it never lists the SSH keys, never calls
\* instances.create, never reads an instance and never performs an instance
\* action, whatever the probes answer, and it ends after the check that found
\* a spot or after the last check.
C35_ProbesOnly ==
    (op = "monitor" /\ ~args.auto_deploy) =>
       /\ sshCalls = 0
       /\ createCalls = <<>>
       /\ reads = <<>>
       /\ actionCalls = <<>>
       /\ instance = NoInstance
       /\ pc \in {"m_start", "check_entry", "probe", "m_sleep", "done"}

\* such a monitor found a spot at its second check and stopped there
C35_Witness ==
    /\ op = "monitor" /\ ~args.auto_deploy
    /\ pc = "done" /\ availability.available
    /\ probeCalls = 2
    /\ Last(results) = <<"Use deploy_spot_instance">>
    /\ createCalls = <<>>

C36_Step ==
    (op \in {"monitor", "deploy"}) =>
       /\ Len(createCalls') <= 1
       \* after the create call: no other create, no key listing, no probe
       /\ createCalls # <<>> =>
             /\ createCalls' = createCalls /\ sshCalls' = sshCalls
             /\ probed' = probed /\ probeCalls' = probeCalls
       \* a create call that returned no instance ends the operation
       /\ (pc = "c_create" /\ instance' = instance) => pc' = "done"
       \* after the first location found: no further probe
       /\ AnswersOf("available") # {} =>
             probed' = probed /\ probeCalls' = probeCalls

\* C36: one invocation of monitor_spot_availability or deploy_spot_instance
\* calls instances.create at most once: a failed create ends the invocation,
\* with no second create and no further probe, and no probe follows the first
\* location found.
C36_AtMostOneCreate == [][C36_Step]_vars

\* a monitor with checks left whose create failed at the first check
C36_Witness ==
    /\ op = "monitor" /\ args.max_checks = 3 /\ pc = "done"
    /\ probeCalls = 1 /\ Len(createCalls) = 1
    /\ instance = NoInstance
    /\ Last(results)[1] = "Error"

\* the latest check_spot_availability call of the operation has returned
\* `availability`
ResultReturned ==
    /\ op \in {"monitor", "check", "deploy"}
    /\ probeCalls >= 1
    /\ pc \notin {"check_entry", "probe"}

\* C37: every AvailabilityResult check_spot_availability returns is
\* consistent: its gpu_type and gpu_count are the shape of the call after the
\* defaults; when available, its location is not empty, is one of the
\* locations of the list scanned, answered available in this call, and its
\* instance type is the (non-empty) type of the shape; when not available its
\* location is empty.
C37_ResultConsistent ==
    ResultReturned =>
       /\ availability.gpu_type = chk.gpu_type
       /\ availability.gpu_count = chk.gpu_count
       /\ availability.gpu_type # "" /\ availability.gpu_count > 0
       /\ op = "check" =>
             /\ availability.gpu_type
                   = OrStr(args.gpu_type, client_config.defaults.gpu_type)
             /\ availability.gpu_count
                   = OrInt(args.gpu_count, client_config.defaults.gpu_count)
       /\ IF availability.available
          THEN /\ availability.location # ""
               /\ \E i \in DOMAIN GivenLocations :
                     GivenLocations[i] = availability.location
               /\ \E i \in DOMAIN probed :
                     probed[i] = <<availability.location, "available">>
               /\ availability.instance_type # ""
               /\ availability.instance_type =
                     get_instance_type_from_gpu_type_and_count(
                         availability.gpu_type, availability.gpu_count)
          ELSE availability.location = ""

\* a check with the default shape that found the pinned location
C37_Witness ==
    /\ op = "check" /\ pc = "done"
    /\ args.gpu_type = "" /\ args.gpu_count = 0 /\ args.location = "FIN-02"
    /\ availability.available /\ availability.location = "FIN-02"
    /\ availability.instance_type # ""

\* ------------------------------------------------------------------- C38
IsPrefix(p, q) == Len(p) <= Len(q) /\ \A i \in 1..Len(p) : p[i] = q[i]

\* the nested keys an argument of update_config_file names
NamedKeys(updates) == { l[1] : l \in dump(updates, <<>>) }

\* the lines of a file that lie neither at, under nor above a named key
Others(file, updates) ==
    { l \in file : \A k \in NamedKeys(updates) :
                      ~IsPrefix(k, l[1]) /\ ~IsPrefix(l[1], k) }

\* the updates that set the same keys back to the values cfg has for them
Back(updates, cfg) ==
    [ s \in DOMAIN updates |->
        Dict([ k \in DOMAIN updates[s].v |-> Scalar(cfg[s][k]) ]) ]

\* the file update_config_file leaves
Written(file, updates) == dump(deep_merge(safe_load(file), updates), <<>>)

\* a step that is the call update_config_file(updates) keeps every other
\* line of the file, writes the named keys, and reloads
C38_Frame ==
    \A updates \in Updates :
       UpdateConfigFile(updates) =>
          /\ Others(config_file', updates) = Others(config_file, updates)
          /\ dump(updates, <<>>) \subseteq config_file'
          /\ config_file' = Others(config_file, updates) \cup dump(updates, <<>>)
          /\ ~LoadRaises(safe_load(config_file')) =>
                config' = Load(safe_load(config_file'))

\* setting keys to other values and then back to the values the loaded
\* configuration had gives a file that loads to the same configuration
C38_RoundTrip ==
    ~LoadRaises(safe_load(config_file)) =>
       LET original == Load(safe_load(config_file)) IN
       \A updates \in { u \in Updates : \A s \in DOMAIN u : IsDict(u[s]) } :
           LET changed == Written(config_file, updates)
               restored == Written(changed, Back(updates, original))
           IN /\ Load(safe_load(restored)) = original
              /\ Others(restored, updates) = Others(config_file, updates)

\* C38: update_config_file changes only the nested keys its argument names:
\* every other line of config.yaml (client_id, client_secret, the other
\* defaults, the deployment settings) keeps its value, the configuration is
\* reloaded from the file written, and setting a key to X and then back to
\* its original value gives the original configuration again.
C38_OnlyNamedKeys == []C38_RoundTrip /\ [][C38_Frame]_vars

\* the default script was set in a file that has another default and the
\* deployment timings: they are still there
C38_Witness ==
    /\ fin = Called("update_config_file", <<"s-2">>)
    /\ fout = <<"returned">>
    /\ config.defaults.script_id = "s-2"
    /\ config.defaults.gpu_type = "B200"
    /\ config.deployment.ready_timeout = 3
    /\ config.client_secret = "secret-1"

\* ------------------------------------------------------------------- C39
\* the monitor's locals keep what was read at the start, whatever is written
\* to config.yaml and to _config meanwhile
C39_SnapshotKept ==
    /\ tool_config' = tool_config
    /\ pc # "m_start" => gpu_type' = gpu_type /\ gpu_count' = gpu_count

\* the shape probed and the ids passed to instances.create are those of the
\* arguments and, for what the caller left out, of the configuration the
\* monitor read when it started
C39_SnapshotUsed ==
    /\ pc \in {"probe", "c_keys", "c_create"} =>
          /\ gpu_type = OrStr(args.gpu_type, tool_config.defaults.gpu_type)
          /\ gpu_count = OrInt(args.gpu_count, tool_config.defaults.gpu_count)
    /\ pc = "probe" => chk.gpu_type = gpu_type /\ chk.gpu_count = gpu_count
    /\ \A i \in DOMAIN createCalls :
          /\ createCalls[i].instance_type =
                get_instance_type_from_gpu_type_and_count(gpu_type, gpu_count)
          /\ createCalls[i].startup_script_id =
                OrStr(args.script_id, tool_config.defaults.script_id)
          /\ createCalls[i].existing_volumes =
                OrStr(args.volume_id, tool_config.defaults.volume_id)

\* C39: a running monitor works with the configuration it read when it
\* started: a set_default_script or update_config_file that completes while
\* the monitor is suspended in a provider call or a sleep changes neither the
\* shape it probes nor the volume and script ids it passes to
\* instances.create.
C39_MonitorKeepsSnapshot == []C39_SnapshotUsed /\ [][C39_SnapshotKept]_vars

\* the defaults were all changed while the monitor ran, and its create call
\* carries the script, the volume and the shape of the start
C39_Witness ==
    /\ args.script_id = "" /\ args.volume_id = ""
    /\ tool_config.defaults.script_id = "s-1"
    /\ tool_config.defaults.volume_id = "v-1"
    /\ config.defaults.script_id = "s-2"
    /\ config.defaults.volume_id = "v-2"
    /\ config.defaults.gpu_type = "H200"
    /\ Len(createCalls) = 1
    /\ createCalls[1].startup_script_id = "s-1"
    /\ createCalls[1].existing_volumes = "v-1"
    /\ createCalls[1].instance_type = "1B300.30V"
    /\ probeCalls = 2

====
